---- MODULE Spec2Model ----
(***************************************************************************)
(* Model of nishizumi_ibt_overlay.py: the cue engine (AudioCues), its      *)
(* playback worker, and the live position unwrapper of NishizumiApp.       *)
(*                                                                         *)
(* Numbers.  Every float of the program is a fixed-point integer in units  *)
(* of 1/1000: a lap fraction 0.5 is 500, a distance of 25 m is 25000, a    *)
(* lead time of 2.0 s is 2000.  The inputs are chosen so that every        *)
(* product the code forms is exact in this unit; binary rounding of the    *)
(* floats is not modelled.  Tone frequencies, durations and gaps are the   *)
(* program's integers (Hz, ms).                                            *)
(*                                                                         *)
(* Optional[T] is a sequence of length at most one: <<>> is None and <<v>> *)
(* is the value v.  A Python dict is a function whose DOMAIN is its key    *)
(* set; the empty dict is <<>>.                                            *)
(***************************************************************************)
EXTENDS Integers, Sequences, FiniteSets, TLC

VARIABLES
    \* AudioCues, fields of the scheduling tick
    stage_state,          \* _stage_state: idx -> [a, b, c : BOOLEAN]
    last_dist_to_event,   \* _last_dist_to_event: idx -> number
    last_lap_pct,         \* _last_lap_pct: Optional
    lap_id,               \* _lap_id
    \* AudioCues, shared between the tick and the playback worker
    audio_queue,          \* _audio_queue: FIFO of [priority, pattern, id]
    current_priority,     \* _current_priority: Optional
    \* NishizumiApp
    last_track_len_m,     \* last_track_len_m: Optional
    pending_ticks,        \* callbacks of _update registered with root.after, not yet run
    last_gear,            \* last_gear: Optional[int]
    reference,            \* reference: Optional[ReferenceLap]
    last_live_lap_pct,    \* last_live_lap_pct: Optional
    live_unwrapped_m,     \* live_unwrapped_m: Optional
    \* TelemetryWorker, shared between the ingest thread and the tick
    stop_event,           \* _stop_event: is it set
    lock,                 \* _lock: "free" or the thread that holds it
    snapshot,             \* _snapshot: the TelemetrySnapshot object it refers to
    objects,              \* the TelemetrySnapshot objects created so far, by identity
    \* position of the ingest thread inside TelemetryWorker.run, and its locals
    ipc, itarget, iargs,
    \* position of the tick inside _update after get_snapshot, and its locals
    tpc, tsnap, tseen,
    \* position of the playback worker thread inside _audio_worker
    wpc, witem, wleft,
    \* position of the tick thread inside _play_pattern / reset
    epc, ecue,
    \* history variables (not program state)
    trk,                  \* the ticks of the position unwrapper since its last seed
    lap,                  \* cues enqueued and thresholds used since the last rollover or reset
    obs,                  \* what the last scheduling tick saw and did
    hist,                 \* what has happened to each cue handed to the worker
    published             \* the snapshot values _set_snapshot has published, and how many after stop

engVars == <<stage_state, last_dist_to_event, last_lap_pct, lap_id>>
audVars == <<audio_queue, current_priority>>
appVars == <<last_track_len_m, pending_ticks>>
posVars == <<last_live_lap_pct, live_unwrapped_m, trk>>
thrVars == <<wpc, witem, wleft, epc, ecue>>
refVars == <<reference>>
gearVars == <<last_gear>>
telVars == <<stop_event, lock, snapshot, objects, ipc, itarget, iargs, tpc, tsnap, tseen,
             published>>
vars == <<stage_state, last_dist_to_event, last_lap_pct, lap_id, audio_queue,
          current_priority, last_track_len_m, pending_ticks, last_live_lap_pct,
          live_unwrapped_m, reference, last_gear,
          stop_event, lock, snapshot, objects, ipc, itarget, iargs, tpc, tsnap, tseen,
          published,
          wpc, witem, wleft, epc, ecue, trk, lap, obs, hist>>

----------------------------------------------------------------------------
(* Python values *)

NoneV == <<>>
Some(v) == <<v>>
IsNone(x) == x = <<>>
Truthy(x) == x # <<>> /\ x[1] # 0          \* `if x:` for an Optional[float]
EmptyDict == <<>>
DictGet(d, k) == IF k \in DOMAIN d THEN <<d[k]>> ELSE <<>>
DictPut(d, k, v) == [x \in (DOMAIN d) \cup {k} |-> IF x = k THEN v ELSE d[x]]

Max(x, y) == IF x >= y THEN x ELSE y
\* product of two fixed-point numbers, y >= 0 (split so that no intermediate
\* value leaves the 32-bit integers of TLC)
Mul(x, y) == x * (y \div 1000) + (x * (y % 1000)) \div 1000
PyMod(x, m) == x % m                        \* float %, m > 0: result in [0, m)

----------------------------------------------------------------------------
(* Program constants *)

PRIORITY_C == 0
PRIORITY_B == 1
PRIORITY_A == 2
DEFAULT_APPROACH_SPEED_MPS == 25000
ASSUMED_TRACK_LEN_M == 5000000
Stages == {"a", "b", "c"}

----------------------------------------------------------------------------
(* AudioCues: the staged cue decisions of one tick (pure part) *)

NoCues == <<>>
NewStage == [a |-> FALSE, b |-> FALSE, c |-> FALSE]

\* def trigger(stage), closure of _handle_stage: a cue is a call of _play_pattern
trigger_unguarded(state, idx, kind, stage, quiet_mode) ==
    [state |-> [state EXCEPT ![idx][stage] = TRUE],
     cues |-> << [idx |-> idx, kind |-> kind, stage |-> stage, quiet |-> quiet_mode] >>]

trigger(state, idx, kind, stage, quiet_mode) ==
    IF state[idx][stage]
    THEN [state |-> state, cues |-> NoCues]
    ELSE [state |-> [state EXCEPT ![idx][stage] = TRUE],
          cues |-> << [idx |-> idx, kind |-> kind, stage |-> stage, quiet |-> quiet_mode] >>]

\* def crossed(threshold), closure of _handle_stage
crossed(distance, last_distance, threshold) ==
    IF IsNone(last_distance)
    THEN distance <= threshold
    ELSE last_distance[1] > threshold /\ threshold >= distance

\* final_threshold of _handle_stage
final_threshold(pct_mode, final_cue_offset_m) ==
    IF pct_mode THEN 1 ELSE Max(0, final_cue_offset_m)

\* AudioCues._handle_stage: the new _stage_state and the cues played, in order
handle_stage(state0, idx, kind, distance, last_distance, approach_a, approach_b, final_cue_offset_m, quiet_mode, pct_mode, force_c) ==
    LET state == IF idx \in DOMAIN state0 THEN state0 ELSE DictPut(state0, idx, NewStage)
        keep(s) == [state |-> s, cues |-> NoCues]
        ra == IF crossed(distance, last_distance, approach_a) /\ ~state[idx].a
              THEN trigger(state, idx, kind, "a", quiet_mode) ELSE keep(state)
        rb == IF crossed(distance, last_distance, approach_b) /\ ~ra.state[idx].b
              THEN trigger(ra.state, idx, kind, "b", quiet_mode) ELSE keep(ra.state)
        rc == IF crossed(distance, last_distance,
                         final_threshold(pct_mode, final_cue_offset_m))
                 /\ ~rb.state[idx].c
              THEN trigger(rb.state, idx, kind, "c", quiet_mode) ELSE keep(rb.state)
    IN  IF force_c
        THEN trigger(state, idx, kind, "c", quiet_mode)
        ELSE [state |-> rc.state, cues |-> ra.cues \o rb.cues \o rc.cues]

\* AudioCues._approach_distances
approach_distances_no_shrink(speed_mps, approach_a_s, approach_b_s) ==
    LET speed == IF Truthy(speed_mps) /\ speed_mps[1] > 0
                 THEN speed_mps[1] ELSE DEFAULT_APPROACH_SPEED_MPS
    IN  <<Max(1000, Mul(speed, approach_a_s)), Max(500, Mul(speed, approach_b_s))>>

approach_distances(speed_mps, approach_a_s, approach_b_s) ==
    LET speed == IF Truthy(speed_mps) /\ speed_mps[1] > 0
                 THEN speed_mps[1] ELSE DEFAULT_APPROACH_SPEED_MPS
        approach_a_m == Max(1000, Mul(speed, approach_a_s))
        approach_b_m == Max(500, Mul(speed, approach_b_s))
    IN  IF approach_b_m >= approach_a_m
        THEN <<approach_a_m, Max(500, Mul(approach_a_m, 500))>>
        ELSE <<approach_a_m, approach_b_m>>

\* the kind filter at the head of both event loops of update
enabled_always(event, cfg) == TRUE

enabled(event, cfg) ==
    /\ ~(event.kind = "brake" /\ ~cfg.enable_brake)
    /\ ~(event.kind = "lift" /\ ~cfg.enable_lift)
    /\ ~(event.kind = "power" /\ ~cfg.enable_power)

\* the condition of the second, forced call of _handle_stage in update
skip_over_never(last, approach_b, distance) == FALSE

skip_over_any_increase(last, approach_b, distance) == ~IsNone(last) /\ distance > last[1]

skip_over(last, approach_b, distance) ==
    ~IsNone(last) /\ last[1] <= approach_b /\ distance > last[1]

\* update, distance mode: the body of `for idx, event in enumerate(events)`
RECURSIVE distance_loop(_, _, _, _, _, _, _, _)
distance_loop(acc, idx, events, current_dist_m, track_len_m, approach_a_m, approach_b_m, cfg) ==
    IF idx >= Len(events) THEN acc
    ELSE
      LET event == events[idx + 1]
          dist_to_event == PyMod(event.dist_m[1] - current_dist_m, track_len_m)
          last_dist == DictGet(acc.last_dist, idx)
          r1 == handle_stage(acc.state, idx, event.kind, dist_to_event, last_dist,
                             approach_a_m, approach_b_m, cfg.final_cue_offset_m,
                             cfg.quiet_mode, FALSE, FALSE)
          r2 == IF skip_over(last_dist, approach_b_m, dist_to_event)
                THEN handle_stage(r1.state, idx, event.kind, 0, last_dist,
                                  approach_a_m, approach_b_m, cfg.final_cue_offset_m,
                                  cfg.quiet_mode, FALSE, TRUE)
                ELSE [state |-> r1.state, cues |-> NoCues]
          next == IF IsNone(event.dist_m) \/ ~enabled(event, cfg)
                  THEN acc
                  ELSE [state |-> r2.state,
                        last_dist |-> DictPut(acc.last_dist, idx, dist_to_event),
                        cues |-> acc.cues \o r1.cues \o r2.cues]
      IN  distance_loop(next, idx + 1, events, current_dist_m, track_len_m,
                        approach_a_m, approach_b_m, cfg)

\* update, fraction mode: the body of the second event loop
RECURSIVE pct_loop(_, _, _, _, _)
pct_loop(acc, idx, events, lap_pct, cfg) ==
    IF idx >= Len(events) THEN acc
    ELSE
      LET event == events[idx + 1]
          approach_a_pct == 20
          approach_b_pct == 10
          delta_pct == PyMod(event.lap_pct - lap_pct, 1000)
          last_pct == DictGet(acc.last_dist, idx)
          r1 == handle_stage(acc.state, idx, event.kind, delta_pct, last_pct,
                             approach_a_pct, approach_b_pct, cfg.final_cue_offset_m,
                             cfg.quiet_mode, TRUE, FALSE)
          r2 == IF skip_over(last_pct, approach_b_pct, delta_pct)
                THEN handle_stage(r1.state, idx, event.kind, 0, last_pct,
                                  approach_a_pct, approach_b_pct, cfg.final_cue_offset_m,
                                  cfg.quiet_mode, TRUE, TRUE)
                ELSE [state |-> r1.state, cues |-> NoCues]
          next == IF ~enabled(event, cfg)
                  THEN acc
                  ELSE [state |-> r2.state,
                        last_dist |-> DictPut(acc.last_dist, idx, delta_pct),
                        cues |-> acc.cues \o r1.cues \o r2.cues]
      IN  pct_loop(next, idx + 1, events, lap_pct, cfg)

\* update, the lap-rollover check at its head
rollover_keeps_cache(eng, lap_pct) ==
    IF ~IsNone(eng.last_lap_pct) /\ lap_pct < eng.last_lap_pct[1] - 500
    THEN [stage_state |-> EmptyDict, last_dist_to_event |-> eng.last_dist_to_event,
          last_lap_pct |-> Some(lap_pct), lap_id |-> eng.lap_id + 1]
    ELSE [eng EXCEPT !.last_lap_pct = Some(lap_pct)]

rollover_check(eng, lap_pct) ==
    IF ~IsNone(eng.last_lap_pct) /\ lap_pct < eng.last_lap_pct[1] - 500
    THEN [stage_state |-> EmptyDict, last_dist_to_event |-> EmptyDict,
          last_lap_pct |-> Some(lap_pct), lap_id |-> eng.lap_id + 1]
    ELSE [eng EXCEPT !.last_lap_pct = Some(lap_pct)]

\* update, mode selection
distance_mode_any_length(track_len_m) == Truthy(track_len_m)

distance_mode(track_len_m) == Truthy(track_len_m) /\ track_len_m[1] > 1000

\* AudioCues.update (lap_pct is never None when the tick calls it): the new engine
\* fields and the cues handed to _play_pattern, in call order
update(eng, lap_pct, track_len_m, events, cfg) ==
    LET eng1 == rollover_check(eng, lap_pct)
        acc0 == [state |-> eng1.stage_state, last_dist |-> eng1.last_dist_to_event,
                 cues |-> NoCues]
        ab == approach_distances(cfg.speed_mps, cfg.approach_a_s, cfg.approach_b_s)
        acc == IF Len(events) = 0 THEN acc0
               ELSE IF distance_mode(track_len_m)
               THEN distance_loop(acc0, 0, events, Mul(lap_pct, track_len_m[1]),
                                  track_len_m[1], ab[1], ab[2], cfg)
               ELSE pct_loop(acc0, 0, events, lap_pct, cfg)
    IN  [stage_state |-> acc.state, last_dist_to_event |-> acc.last_dist,
         last_lap_pct |-> eng1.last_lap_pct, lap_id |-> eng1.lap_id,
         cues |-> acc.cues,
         \* the branch taken: "none" is the return at `if not events`
         mode |-> IF Len(events) = 0 THEN "none"
                  ELSE IF distance_mode(track_len_m) THEN "distance" ELSE "fraction"]

----------------------------------------------------------------------------
(* AudioCues: tone tables and the cue queue *)

\* AudioCues._pattern_for: sequences of <<frequency, duration_ms, gap_ms>>
pattern_for(kind, stage) ==
    IF kind = "lift"
    THEN [a |-> << <<520, 80, 0>> >>, b |-> << <<700, 110, 0>> >>,
          c |-> << <<980, 190, 0>> >>][stage]
    ELSE IF kind = "power"
    THEN [a |-> << <<640, 80, 0>> >>, b |-> << <<860, 110, 0>> >>,
          c |-> << <<1200, 190, 0>> >>][stage]
    ELSE [a |-> << <<560, 90, 0>> >>, b |-> << <<820, 130, 0>> >>,
          c |-> << <<1300, 700, 0>> >>][stage]

\* int(x * 0.6) for the non-negative integers of the tone tables
IntTimesOne(x) == x

IntTimes16(x) == (x * 16) \div 10

IntTimes06(x) == (x * 6) \div 10

\* _play_pattern, the quiet-mode scaling of a pattern
quiet_scale(pattern) ==
    [i \in 1..Len(pattern) |->
        <<pattern[i][1], Max(40, IntTimes06(pattern[i][2])), IntTimes06(pattern[i][3])>>]

\* _play_pattern, priority_map.get(stage, _PRIORITY_A)
priority_map(stage) ==
    IF stage = "c" THEN PRIORITY_C ELSE IF stage = "b" THEN PRIORITY_B ELSE PRIORITY_A

\* _play_pattern, the item it puts on the queue; id is a history tag, not program data
make_item(cue, id) ==
    [priority |-> priority_map(cue.stage),
     pattern |-> IF cue.quiet THEN quiet_scale(pattern_for(cue.kind, cue.stage))
                 ELSE pattern_for(cue.kind, cue.stage),
     id |-> id]

\* _play_pattern, `if priority <= self._PRIORITY_B`: the cue flushes and signals
preempts_all(priority) == TRUE

preempts_only_b(priority) == priority = PRIORITY_B

preempts_only_c(priority) == priority = PRIORITY_C

preempts(priority) == priority <= PRIORITY_B

\* AudioCues._clear_audio_queue run to its end with no other thread in between
clear_audio_queue(queue) == <<>>

\* AudioCues._play_pattern (winsound present) run to its end with no other thread
\* in between: the new queue and current priority
play_pattern(aud, cue, id) ==
    LET item == make_item(cue, id)
    IN  IF preempts(item.priority)
        THEN [queue |-> Append(clear_audio_queue(aud.queue), item),
              current |-> Some(item.priority)]
        ELSE [queue |-> Append(aud.queue, item), current |-> aud.current]

\* the _play_pattern calls of one update, in order
RECURSIVE play_all(_, _)
play_all(aud, cues) ==
    IF cues = <<>> THEN aud
    ELSE play_all(play_pattern(aud, Head(cues), 0), Tail(cues))

----------------------------------------------------------------------------
(* ReferenceLap.  Fractions, pedal values and thresholds are in units of      *)
(* 1/1000 and compared exactly.  A channel that the recording does not have   *)
(* (get_all gives None) and an empty one are both falsy in the code and are   *)
(* both the empty sequence here.                                              *)

DEFAULT_BRAKE_THRESHOLD == 100
DEFAULT_LIFT_THRESHOLD == 200
DEFAULT_POWER_THRESHOLD == 700

\* RefEvent(kind, lap_pct): dist_m defaults to None
RefEvent(kind, lap_pct) == [kind |-> kind,
                            dist_m |-> NoneV,
                            lap_pct |-> lap_pct]

\* max(s) of a non-empty list
SeqMax(s) == CHOOSE m \in {s[i] : i \in 1..Len(s)} : \A i \in 1..Len(s) : s[i] <= m

\* s[lo:hi] with 0 <= lo <= hi <= len(s)
Slice(s, lo, hi) == SubSeq(s, lo + 1, hi)

\* [0.0] * length
Zeros(length) == [i \in 1..length |-> 0]

\* _load_ibt: `if not lap_pct_all: raise ValueError(...)`
load_fails_never(lap_pct_all) == FALSE

load_fails(lap_pct_all) == lap_pct_all = <<>>

\* _load_ibt, the loop that cuts the recording at every backward jump of more
\* than 0.5: the segments (start, end) from sample i on (i counts from 0)
RECURSIVE segments_from(_, _, _)
segments_from(lap_pct_all, start, i) ==
    IF i >= Len(lap_pct_all) THEN << <<start, Len(lap_pct_all)>> >>
    ELSE IF lap_pct_all[i + 1] < lap_pct_all[i] - 500
         THEN << <<start, i>> >> \o segments_from(lap_pct_all, i, i + 1)
         ELSE segments_from(lap_pct_all, start, i + 1)

\* _load_ibt: max(segments, key=lambda seg: seg[1] - seg[0]), the first of the longest
best_segment_first(segments) == segments[1]

RECURSIVE best_segment(_)
best_segment(segments) ==
    IF Len(segments) = 1 THEN segments[1]
    ELSE LET rest == best_segment(Tail(segments))
         IN  IF rest[2] - rest[1] > segments[1][2] - segments[1][1]
             THEN rest ELSE segments[1]

\* _load_ibt: the fractions of the run, divided by 100 when their maximum is above 1.5
run_lap_pct(lap_pct) ==
    IF lap_pct # <<>> /\ SeqMax(lap_pct) > 1500
    THEN [i \in 1..Len(lap_pct) |-> lap_pct[i] \div 100]
    ELSE lap_pct

\* _load_ibt: `x_all[s:e] if x_all else [0.0] * length`
run_channel(channel_all, s, e) ==
    IF channel_all # <<>> THEN Slice(channel_all, s, e) ELSE Zeros(e - s)

\* _load_ibt: track_length_m from LapDist
run_track_length(lap_dist_all, s, e) ==
    IF lap_dist_all # <<>> /\ Slice(lap_dist_all, s, e) # <<>>
       /\ SeqMax(Slice(lap_dist_all, s, e)) > 0
    THEN Some(SeqMax(Slice(lap_dist_all, s, e)))
    ELSE NoneV

\* _build_events: `self.events = []; self.brake_points = []`
stale_lists(events, brake_points) == [events |-> events, brake_points |-> brake_points]

fresh_lists(events, brake_points) == [events |-> <<>>, brake_points |-> <<>>]

\* _build_events: self.brake_points.sort()
Less(a, b) == a < b

sort_not(points) == points

sort(points) == SortSeq(points, Less)

\* _build_events: `brake_val < self.brake_threshold * 0.5`
brake_released_below_threshold(brake_val, brake_threshold) == brake_val < brake_threshold

brake_released(brake_val, brake_threshold) == 2 * brake_val < brake_threshold

\* _build_events, the body of the loop for sample i (i counts from 0).  acc holds
\* events, brake_points, in_brake and in_lift; event_at (the sample of each event)
\* and reached (in_brake, in_lift on reaching each sample) are history tags
build_step(ref, i, acc) ==
    LET lap_pct == ref.lap_pct[i + 1]
        brake_val == ref.brake[i + 1]
        throttle_val == ref.throttle[i + 1]
        prev_brake == ref.brake[i]
        prev_throttle == ref.throttle[i]
        a0 == [acc EXCEPT !.reached = Append(@, <<acc.in_brake, acc.in_lift>>)]
        a1 == IF ~a0.in_brake /\ prev_brake < ref.brake_threshold
                 /\ ref.brake_threshold <= brake_val
              THEN [a0 EXCEPT !.events = Append(@, RefEvent("brake", lap_pct)),
                              !.brake_points = Append(@, lap_pct),
                              !.event_at = Append(@, i),
                              !.in_brake = TRUE, !.in_lift = FALSE]
              ELSE a0
        a2 == IF a1.in_brake /\ brake_released(brake_val, ref.brake_threshold)
              THEN [a1 EXCEPT !.in_brake = FALSE] ELSE a1
        a3 == IF ~a2.in_brake /\ ~a2.in_lift /\ prev_throttle >= ref.lift_threshold
                 /\ throttle_val < ref.lift_threshold /\ brake_val < ref.brake_threshold
              THEN [a2 EXCEPT !.events = Append(@, RefEvent("lift", lap_pct)),
                              !.event_at = Append(@, i),
                              !.in_lift = TRUE]
              ELSE a2
        \* throttle_val > self.lift_threshold * 1.2
        a4 == IF a3.in_lift /\ 10 * throttle_val > 12 * ref.lift_threshold
              THEN [a3 EXCEPT !.in_lift = FALSE] ELSE a3
    IN  IF (a4.in_brake \/ a4.in_lift) /\ prev_throttle < ref.power_threshold
           /\ ref.power_threshold <= throttle_val
        THEN [a4 EXCEPT !.events = Append(@, RefEvent("power", lap_pct)),
                        !.event_at = Append(@, i)]
        ELSE a4

\* _build_events, `for i in range(1, len(self.lap_pct))` from sample i on
RECURSIVE build_loop(_, _, _)
build_loop(ref, i, acc) ==
    IF i >= Len(ref.lap_pct) THEN acc
    ELSE build_loop(ref, i + 1, build_step(ref, i, acc))

\* ReferenceLap._build_events: the lists it leaves and the history of its scan
build_events(ref) ==
    LET lists == fresh_lists(ref.events, ref.brake_points)
        acc0 == [events |-> lists.events,
                 brake_points |-> lists.brake_points,
                 reached |-> <<>>,
                 in_brake |-> FALSE,
                 in_lift |-> FALSE,
                 event_at |-> <<>>]
        acc == IF ref.lap_pct = <<>> THEN acc0 ELSE build_loop(ref, 1, acc0)
    IN  [events |-> acc.events,
         brake_points |-> IF ref.lap_pct = <<>> THEN acc.brake_points
                          ELSE sort(acc.brake_points),
         reached |-> acc.reached,
         event_at |-> acc.event_at]

\* ReferenceLap.refresh_thresholds: the reference lap afterwards
refresh_thresholds(ref, brake_threshold, lift_threshold, power_threshold) ==
    LET ref1 == [ref EXCEPT !.brake_threshold = brake_threshold,
                            !.lift_threshold = lift_threshold,
                            !.power_threshold = power_threshold]
        built == build_events(ref1)
    IN  [ref1 EXCEPT !.events = built.events, !.brake_points = built.brake_points]

\* _load_ibt: best_segment, the run (s, e) of the recording that is selected
load_run(lap_pct_all) == best_segment(segments_from(lap_pct_all, 0, 1))

\* ReferenceLap.__init__ and _load_ibt past the check of LapDistPct: the reference
\* lap of a recording (its channels by their names in the file)
load_ibt(ibt, brake_threshold, lift_threshold, power_threshold) ==
    LET seg == load_run(ibt.LapDistPct)
        s == seg[1]
        e == seg[2]
        ref == [speed |-> run_channel(ibt.Speed, s, e),
                events |-> <<>>,
                lap_pct |-> run_lap_pct(Slice(ibt.LapDistPct, s, e)),
                brake_points |-> <<>>,
                brake_threshold |-> brake_threshold,
                brake |-> run_channel(ibt.Brake, s, e),
                throttle |-> run_channel(ibt.Throttle, s, e),
                lift_threshold |-> lift_threshold,
                power_threshold |-> power_threshold,
                steering |-> run_channel(ibt.SteeringWheelAngle, s, e),
                gear |-> run_channel(ibt.Gear, s, e),
                track_length_m |-> run_track_length(ibt.LapDist, s, e)]
        built == build_events(ref)
    IN  [ref EXCEPT !.events = built.events, !.brake_points = built.brake_points]

\* bisect.bisect_left(a, x): the number of leading items below x when a is sorted;
\* on any list, the binary search of the library (lo, hi as in its loop)
RECURSIVE bisect_left(_, _, _, _)
bisect_left(a, x, lo, hi) ==
    IF lo >= hi THEN lo
    ELSE LET mid == (lo + hi) \div 2
         IN  IF a[mid + 1] < x THEN bisect_left(a, x, mid + 1, hi)
             ELSE bisect_left(a, x, lo, mid)

\* ReferenceLap.ref_at_pct in exact arithmetic: the value as a fraction <<num, den>>
\* (den > 0), not reduced
ref_at_pct(ref, data, pct) ==
    IF ref.lap_pct = <<>> THEN <<0, 1>>
    ELSE LET idx == bisect_left(ref.lap_pct, pct, 0, Len(ref.lap_pct))
         IN  IF idx <= 0 THEN <<data[1], 1>>
             ELSE IF idx >= Len(ref.lap_pct) THEN <<data[Len(data)], 1>>
             ELSE LET before == ref.lap_pct[idx]
                      after == ref.lap_pct[idx + 1]
                  IN  IF after = before THEN <<data[idx + 1], 1>>
                      ELSE IF after > before
                      THEN <<data[idx] * (after - before)
                               + (data[idx + 1] - data[idx]) * (pct - before),
                             after - before>>
                      ELSE <<data[idx] * (before - after)
                               + (data[idx + 1] - data[idx]) * (before - pct),
                             before - after>>

----------------------------------------------------------------------------
(* TelemetryWorker and TelemetrySnapshot *)

\* TelemetrySnapshot: connected, timestamp and lap_pct stand for its twelve
\* fields; time.time() is a clock that differs from snapshot to snapshot
TelemetrySnapshot(connected, timestamp, lap_pct) ==
    [lap_pct |-> lap_pct,
     connected |-> connected,
     timestamp |-> timestamp]

\* `TelemetrySnapshot(...)` in run creates a new object: its identity, given the
\* object _snapshot refers to and the number of objects created so far
reused_object(current, count) == current
new_object(current, count) == count + 1

\* run: `while not self._stop_event.is_set()`
stop_is_set_never(event) == FALSE
stop_is_set(event) == event

----------------------------------------------------------------------------
(* Bounds and inputs of the model *)

MaxLap == 1                                   \* cap of _lap_id
MaxQueue == 2                                 \* cap of the length of _audio_queue
MaxWraps == 2                                 \* cap of the lap completions the unwrapper sees after a seed
MaxCalls == 2                                 \* cap of the direct calls of AudioCues.update
MaxCues == 3                                  \* cap of the _play_pattern calls of SpecAudio
MaxSnapshots == 3                             \* cap of the snapshots TelemetryWorker.run creates
QuietInputs == {FALSE}                        \* quiet_mode_var of the tick
EnableBrakeInputs == {TRUE}                   \* audio_brake_var of the tick
\* snapshot.lap_pct values of the live source; 50000 is 50.0, a percentage
LapPctInputs == {50, 480, 490, 500, 510, 990, 50000}
\* lap_pct of the snapshots of the position unwrapper: fractions, a fraction
\* above 1 that stays as it is (<= 1.5), and percent values
PosLapPctInputs == LapPctInputs \cup {1200, 2000}
TrackLengthKmInputs == {NoneV, Some(1000)}    \* snapshot.track_length_km: absent, 1.0
SpeedInputs == {NoneV, Some(10000)}           \* snapshot.speed_mps: absent, 10.0
ApproachAInputs == {2000}                     \* approach_a_var: DEFAULT_APPROACH_A_S
ApproachBInputs == {1000}                     \* approach_b_var: DEFAULT_APPROACH_B_S
FinalCueOffsetInputs == {0}                   \* final_cue_offset_var
\* reference.events as _build_events leaves them (dist_m unset)
\* arguments of a direct call of AudioCues.update: positions around the brake
\* event with every track length and all kinds enabled, and two positions with
\* every choice of the enable flags
UpdateTrackLenInputs == {NoneV, Some(0), Some(1000), Some(1001), Some(1000000)}
UpdateInputs ==
    {[lap_pct |-> p, track_len_m |-> l, enable_brake |-> TRUE, enable_power |-> TRUE] :
        p \in {479, 480, 489, 490, 498, 499, 500, 510}, l \in UpdateTrackLenInputs}
    \cup
    {[lap_pct |-> p, track_len_m |-> l, enable_brake |-> eb, enable_power |-> ep] :
        p \in {490, 510}, l \in {NoneV, Some(1000000)}, eb \in BOOLEAN, ep \in BOOLEAN}
\* arguments of _approach_distances: speed absent, 0, negative, 0.2, 10, 40 m/s;
\* lead times negative, 0 and from 0.25 s to 4 s
ApproachSpeedInputs == {NoneV, Some(0), Some(-5000), Some(200), Some(10000), Some(40000)}
LeadTimeInputs == {-1000, 0, 250, 1000, 2000, 4000}
RefEvents == << [kind |-> "brake", lap_pct |-> 500, dist_m |-> NoneV],
                [kind |-> "power", lap_pct |-> 520, dist_m |-> NoneV] >>
\* the thresholds of the settings panel: the defaults
DefaultThresholds == <<DEFAULT_BRAKE_THRESHOLD, DEFAULT_LIFT_THRESHOLD, DEFAULT_POWER_THRESHOLD>>
\* the recording behind RefEvents: braking from 0.5 on, back on the throttle at
\* 0.52 with the brake still applied; no LapDist and no steering, gear or speed
AppRecording ==
    [LapDistPct |-> <<400, 500, 520>>,
     Speed |-> <<>>,
     Brake |-> <<0, 150, 150>>,
     Throttle |-> <<1000, 0, 800>>,
     SteeringWheelAngle |-> <<>>,
     Gear |-> <<>>,
     LapDist |-> <<>>]
\* the files and thresholds of the loads of the application
AppLoadInputs == {[ibt |-> AppRecording, th |-> DefaultThresholds]}
\* thresholds with lift_th * 1.2 above power_th
HighLiftThresholds == <<DEFAULT_BRAKE_THRESHOLD, 600, DEFAULT_POWER_THRESHOLD>>
ThresholdInputs == {DefaultThresholds, HighLiftThresholds}
\* a recording in which the lift threshold 0.6 adds a lift event at 0.45 in front
\* of the brake event at 0.50 and the power event at 0.52
RederiveRecording ==
    [LapDistPct |-> <<400, 450, 500, 520>>,
     Speed |-> <<>>,
     Brake |-> <<0, 0, 150, 150>>,
     Throttle |-> <<1000, 500, 0, 800>>,
     SteeringWheelAngle |-> <<>>,
     Gear |-> <<>>,
     LapDist |-> <<>>]
RederiveLoadInputs == {[ibt |-> RederiveRecording, th |-> DefaultThresholds]}
\* positions of the approach to the brake event, and one behind the events
RederiveLapPctInputs == {480, 490, 510}
\* a recording with no LapDist, steering, gear or speed channel
Rec(lap_pct, throttle, brake) ==
    [LapDistPct |-> lap_pct,
     Speed |-> <<>>,
     Brake |-> brake,
     Throttle |-> throttle,
     SteeringWheelAngle |-> <<>>,
     Gear |-> <<>>,
     LapDist |-> <<>>]
\* brake released (0.04), held between half the threshold and the threshold
\* (0.06) and applied (0.15), in every order, at full throttle
BrakeRecordings ==
    {Rec(<<100, 200, 300, 400>>, <<800, 800, 800, 800>>, <<a, b, c, d>>) :
        a \in {40, 150}, b \in {40, 60, 150}, c \in {40, 60, 150}, d \in {40, 60, 150}}
\* the brake values [0, 0.05, 0.15, 0.3, 0.04], no throttle channel
ExampleRecording == Rec(<<100, 200, 300, 400, 500>>, <<>>, <<0, 50, 150, 300, 40>>)
\* throttle off (0.1), at 0.71 and at 0.8, in every order, no brake channel
ThrottleRecordings ==
    {Rec(<<100, 200, 300, 400>>, <<a, b, c, d>>, <<>>) :
        a \in {100, 800}, b \in {100, 710, 800}, c \in {100, 710, 800},
        d \in {100, 710, 800}}
\* throttle off or on around one braking zone that starts at the second sample
\* and is released at the fourth
BrakeZoneRecordings ==
    {Rec(<<100, 200, 300, 400>>, <<a, b, c, d>>, <<0, 150, 150, 40>>) :
        a \in {100, 800}, b \in {100, 800}, c \in {100, 800}, d \in {100, 800}}
\* lap fractions 0.1, 0.3 and 0.9 in every order (jumps back by 0.2, 0.6 and 0.8),
\* the brake applied at the second and at the fourth sample
LapRecordings ==
    {Rec(<<a, b, c, d>>, <<>>, <<0, 150, 0, 150>>) :
        a \in {100, 300, 900}, b \in {100, 300, 900}, c \in {100, 300, 900},
        d \in {100, 300, 900}}
\* recordings with every channel, in fractions and in percent (10.0 .. 90.0), one
\* with a fraction of 1.2, and files without LapDistPct
FullRecording(lap_pct) ==
    [LapDistPct |-> lap_pct,
     Speed |-> <<60000, 40000, 50000>>,
     Brake |-> <<0, 150, 0>>,
     Throttle |-> <<800, 100, 800>>,
     SteeringWheelAngle |-> <<-100, 0, 100>>,
     Gear |-> <<4, 3, 4>>,
     LapDist |-> <<0, 2000000, 4000000>>]
OtherRecordings ==
    {FullRecording(<<100, 500, 900>>), FullRecording(<<10000, 50000, 90000>>),
     FullRecording(<<100, 500, 1200>>), FullRecording(<<>>),
     Rec(<<>>, <<>>, <<>>), AppRecording, ExampleRecording}
\* the files and thresholds of the loads of ReferenceLap
LoadInputs ==
    {[ibt |-> r, th |-> DefaultThresholds] :
        r \in BrakeRecordings \cup BrakeZoneRecordings \cup LapRecordings
              \cup OtherRecordings}
    \cup {[ibt |-> r, th |-> t] : r \in ThrottleRecordings, t \in ThresholdInputs}
\* the recordings and the positions of the calls of ref_at_pct: lap fractions in
\* every order with a speed channel, queried at, between and outside the samples
ValueAtLoadInputs ==
    {[ibt |-> [Rec(<<a, b, c>>, <<>>, <<>>) EXCEPT !.Speed = <<10000, 20000, 30000>>],
      th |-> DefaultThresholds] :
        a \in {100, 300, 900}, b \in {100, 300, 900}, c \in {100, 300, 900}}
PctQueries == {50, 100, 200, 300, 600, 900, 950}
\* snapshot.gear of the tick: absent, or one of five gears
GearInputs == {NoneV} \cup {Some(g) : g \in 1..5}
\* what run reads: ir.is_connected after startup, LapDistPct, and whether a read raises
IngestLapPctInputs == {100, 200}
\* the recordings, positions and track lengths of the calls of
\* _next_brake_distance: the brake applied at the second and at the fourth sample
\* of an increasing run that ends at 0.9, at 1.0 or at 1.2, a recording with one
\* brake point and one with none; track length absent, 0 and 1000 m
NextBrakeLoadInputs ==
    {[ibt |-> Rec(<<100, b, 600, d>>, <<>>, <<0, 150, 0, 150>>), th |-> DefaultThresholds] :
        b \in {200, 300, 500}, d \in {900, 1000, 1200}}
    \cup {[ibt |-> Rec(<<100, 300, 600, 900>>, <<>>, <<0, 150, 150, 150>>),
           th |-> DefaultThresholds],
          [ibt |-> Rec(<<100, 300, 600, 900>>, <<>>, <<>>), th |-> DefaultThresholds]}
NextBrakePctInputs == {0, 100, 250, 300, 400, 950}
NextBrakeTrackLenInputs == {NoneV, Some(0), Some(1000000)}
EventIdx == 0..(Len(RefEvents) - 1)

----------------------------------------------------------------------------
(* History variables *)

LapNone == [fired |-> [i \in EventIdx |-> [a |-> 0, b |-> 0, c |-> 0]],
            thr |-> NoneV, stable |-> TRUE]
ObsNone(op) == [op |-> op, roll |-> FALSE, mid_empty |-> FALSE, mid_kept |-> FALSE,
                skip |-> {}, forced |-> {}]
\* next_id: tag of the next _play_pattern call; flushed: items removed by
\* _clear_audio_queue, with the priority of the cue that flushed them (ByReset for
\* reset); dequeued: items the worker took; beeped: tags of items of which a tone
\* was emitted; signalled: tags of items the worker held, with a check still to
\* come, when a more urgent cue wrote the current priority
ByReset == NoneV
HistNone == [next_id |-> 1, flushed |-> {}, dequeued |-> {}, beeped |-> {},
             signalled |-> {}]

\* len: track length of the seeding tick; same_len: every later tick used it too;
\* mono: no tick moved the lap fraction backwards; wraps: ticks taken as a lap
\* completion; n: ticks since the seed (counted up to 3); before: the lap
\* fraction held when the state was last unset (kept until the tick after the
\* next seed)
TrkNone == [len |-> NoneV, same_len |-> TRUE, mono |-> TRUE, wraps |-> 0, n |-> 0,
            before |-> NoneV]

CountCue(cues, idx, stage) ==
    Cardinality({k \in 1..Len(cues) : cues[k].idx = idx /\ cues[k].stage = stage})

\* the cue counts of the lap after the cues of one tick
AddFired(f, cues) ==
    [i \in EventIdx |-> [st \in Stages |-> f[i][st] + CountCue(cues, i, st)]]

----------------------------------------------------------------------------
(* NishizumiApp._update, the part that drives the cue engine *)

\* _update: `if lap_pct > 1.5: lap_pct = lap_pct / 100.0`
normalize_lap_pct(lap_pct) == IF lap_pct > 1500 THEN lap_pct \div 100 ELSE lap_pct

\* ReferenceLap.set_event_distances
set_event_distances(events, track_len_m) ==
    [i \in 1..Len(events) |->
        [events[i] EXCEPT !.dist_m = Some(Mul(events[i].lap_pct, track_len_m))]]

\* _update: track_len_m, last_track_len_m and track_len_display_m;
\* ref_track_length_m is reference.track_length_m, None with no reference
track_len_display(track_length_km, last_len, ref_track_length_m) ==
    LET track_len_m == IF Truthy(track_length_km)
                       THEN Some(Mul(track_length_km[1], 1000000)) ELSE NoneV
        last1 == IF Truthy(track_len_m) THEN track_len_m ELSE last_len
        display1 == IF Truthy(track_len_m) THEN track_len_m ELSE last1
    IN  IF ~Truthy(display1) /\ Truthy(ref_track_length_m)
        THEN [display |-> ref_track_length_m, last |-> ref_track_length_m]
        ELSE [display |-> display1, last |-> last1]

\* NishizumiApp._schedule_next, called by a running callback of _update (which
\* root.after has taken off the pending ones): the callbacks pending afterwards
schedule_next(pending) == (pending - 1) + 1

Engine == [stage_state |-> stage_state, last_dist_to_event |-> last_dist_to_event,
           last_lap_pct |-> last_lap_pct, lap_id |-> lap_id]

\* The scheduling tick with a connected snapshot that has a position and with a
\* reference loaded: _update from refresh_thresholds to audio.update, every
\* _play_pattern call included. The Live Position State the same tick
\* writes is read by nothing in AudioCues; PosTick follows it.
TickWith(thresholds, positions, lengths) ==
    \E snap_pct \in positions, km \in lengths, speed \in SpeedInputs,
       a_var \in ApproachAInputs, b_var \in ApproachBInputs,
       off_var \in FinalCueOffsetInputs, en_brake \in EnableBrakeInputs, quiet \in QuietInputs,
       th \in thresholds :
      /\ pending_ticks >= 1
      /\ ~IsNone(reference)
      /\ \E ref \in {refresh_thresholds(reference[1], th[1], th[2], th[3])} :
         \E tl \in {track_len_display(km, last_track_len_m, ref.track_length_m)} :
         \E events \in {IF Truthy(tl.display)
                        THEN set_event_distances(ref.events, tl.display[1]) ELSE ref.events} :
            LET lap_pct == normalize_lap_pct(snap_pct)
                cfg == [quiet_mode |-> quiet,
                        final_cue_offset_m |-> Max(0, off_var),
                        speed_mps |-> speed,
                        approach_a_s |-> Max(500, a_var),
                        approach_b_s |-> Max(250, b_var),
                        enable_brake |-> en_brake,
                        enable_lift |-> TRUE,
                        enable_power |-> TRUE]
                \* what the tick saw, stated on the values of the code
                roll == ~IsNone(last_lap_pct) /\ last_lap_pct[1] - lap_pct > 500
                mid == rollover_check(Engine, lap_pct)
                dmode == distance_mode(tl.display)
                ab == approach_distances(speed, cfg.approach_a_s, cfg.approach_b_s)
                thr == IF dmode THEN <<ab[1], ab[2], Max(0, cfg.final_cue_offset_m)>>
                       ELSE <<20, 10, 1>>
                dist(i) == IF dmode
                           THEN PyMod(events[i + 1].dist_m[1] - Mul(lap_pct, tl.display[1]),
                                      tl.display[1])
                           ELSE PyMod(events[i + 1].lap_pct - lap_pct, 1000)
                skipped == {i \in EventIdx :
                              /\ enabled(events[i + 1], cfg)
                              /\ i \in DOMAIN mid.last_dist_to_event
                              /\ mid.last_dist_to_event[i] <= thr[2]
                              /\ dist(i) > mid.last_dist_to_event[i]}
                base == IF roll THEN LapNone ELSE lap
            IN  /\ \E r \in {update(Engine, lap_pct, tl.display, events, cfg)} :
                   \E aud \in {play_all([queue |-> audio_queue, current |-> current_priority],
                                         r.cues)} :
                   /\ r.lap_id <= MaxLap
                   /\ Len(aud.queue) <= MaxQueue
                   /\ reference' = Some([ref EXCEPT !.events = events])
                   /\ stage_state' = r.stage_state
                   /\ last_dist_to_event' = r.last_dist_to_event
                   /\ last_lap_pct' = r.last_lap_pct
                   /\ lap_id' = r.lap_id
                   /\ audio_queue' = aud.queue
                   /\ current_priority' = aud.current
                   /\ last_track_len_m' = tl.last
                   /\ pending_ticks' = schedule_next(pending_ticks)
                   /\ lap' = [fired |-> AddFired(base.fired, r.cues),
                              thr |-> IF base.stable /\ (IsNone(base.thr) \/ base.thr[1] = thr)
                                      THEN Some(thr) ELSE NoneV,
                              stable |-> base.stable /\ (IsNone(base.thr) \/ base.thr[1] = thr)]
                   /\ obs' = [op |-> "tick",
                              roll |-> roll,
                              mid_empty |-> mid.stage_state = EmptyDict
                                            /\ mid.last_dist_to_event = EmptyDict,
                              mid_kept |-> mid.stage_state = stage_state
                                           /\ mid.last_dist_to_event = last_dist_to_event,
                              skip |-> skipped,
                              forced |-> {i \in skipped : ~(i \in DOMAIN mid.stage_state
                                                              /\ mid.stage_state[i].c)},
                              jumped |-> {i \in EventIdx :
                                            /\ enabled(events[i + 1], cfg)
                                            /\ i \in DOMAIN mid.last_dist_to_event
                                            /\ mid.last_dist_to_event[i] > thr[2]
                                            /\ dist(i) > mid.last_dist_to_event[i]}]
                   /\ UNCHANGED <<posVars, telVars, thrVars, hist, gearVars>>

\* the tick with the thresholds of the application left at their defaults
Tick == TickWith({DefaultThresholds}, LapPctInputs, TrackLengthKmInputs)

\* AudioCues._audio_worker handling one queue item from get to the reset of the
\* current priority, with no tick in between
WorkerItem ==
    /\ audio_queue # <<>>
    /\ audio_queue' = Tail(audio_queue)
    /\ current_priority' = NoneV
    /\ obs' = ObsNone("worker")
    /\ UNCHANGED <<engVars, appVars, posVars, refVars, telVars, thrVars, lap, hist, gearVars>>

\* AudioCues.reset with no worker step in between
Reset ==
    /\ stage_state' = EmptyDict
    /\ last_dist_to_event' = EmptyDict
    /\ last_lap_pct' = NoneV
    /\ lap_id' = 0
    /\ audio_queue' = clear_audio_queue(audio_queue)
    /\ lap' = LapNone
    /\ obs' = ObsNone("reset")
    /\ UNCHANGED <<current_priority, appVars, posVars, refVars, telVars, thrVars, hist, gearVars>>

Init ==
    /\ stage_state = EmptyDict
    /\ last_dist_to_event = EmptyDict
    /\ last_lap_pct = NoneV
    /\ lap_id = 0
    /\ audio_queue = <<>>
    /\ current_priority = NoneV
    /\ last_track_len_m = NoneV
    /\ pending_ticks = 1
    /\ reference = NoneV
    /\ last_gear = NoneV
    /\ last_live_lap_pct = NoneV
    /\ live_unwrapped_m = NoneV
    /\ wpc = "get"
    /\ witem = NoneV
    /\ wleft = <<>>
    /\ epc = "idle"
    /\ ecue = NoneV
    /\ trk = TrkNone
    /\ lap = LapNone
    /\ obs = ObsNone("init")
    /\ hist = HistNone
    /\ stop_event = FALSE
    /\ lock = "free"
    /\ snapshot = 1
    /\ objects = <<TelemetrySnapshot(FALSE, 0, NoneV)>>
    /\ ipc = "poll"
    /\ itarget = 1
    /\ iargs = TelemetrySnapshot(FALSE, 0, NoneV)
    /\ tpc = "idle"
    /\ tsnap = 1
    /\ tseen = TelemetrySnapshot(FALSE, 0, NoneV)
    /\ published = [values |-> {TelemetrySnapshot(FALSE, 0, NoneV)}, after_stop |-> 0]

\* NishizumiApp._load_reference with a file and thresholds of the given inputs:
\* ReferenceLap(...) raises when the file has no LapDistPct, and then the
\* reference is unset; else the new reference lap replaces the old one.  The
\* record of the load keeps the run (start, end) that was selected and the scan
\* of the events of the new reference lap.
LoadReferenceFrom(inputs) ==
    \E inp \in inputs :
      \E failed \in {load_fails(inp.ibt.LapDistPct)},
         ref \in {load_ibt(inp.ibt, inp.th[1], inp.th[2], inp.th[3])} :
      \E scan \in {build_events(ref)} :
          /\ reference' = IF failed THEN NoneV ELSE Some(ref)
          /\ obs' = [ibt |-> inp.ibt,
                     th |-> inp.th,
                     op |-> "load",
                     roll |-> FALSE,
                     mid_empty |-> FALSE,
                     mid_kept |-> FALSE,
                     skip |-> {},
                     forced |-> {},
                     failed |-> failed,
                     scan |-> scan,
                     run |-> load_run(inp.ibt.LapDistPct)]
          /\ UNCHANGED <<engVars, audVars, appVars, posVars, telVars, thrVars, lap, hist, gearVars>>

\* the loads of the application
LoadReference == LoadReferenceFrom(AppLoadInputs)

\* ReferenceLap.refresh_thresholds called with any thresholds; the record of the
\* call keeps the events before it and the scan of the sample series, from empty
\* lists, under the new thresholds
RefreshCall ==
    \E th \in ThresholdInputs :
      /\ ~IsNone(reference)
      /\ reference' = Some(refresh_thresholds(reference[1], th[1], th[2], th[3]))
      /\ obs' = [before |-> reference[1].events,
                 th |-> th,
                 op |-> "refresh",
                 scan |-> build_events([reference[1] EXCEPT !.brake_threshold = th[1],
                                                            !.lift_threshold = th[2],
                                                            !.power_threshold = th[3],
                                                            !.events = <<>>,
                                                            !.brake_points = <<>>])]
      /\ UNCHANGED <<engVars, audVars, appVars, posVars, telVars, thrVars, lap, hist, gearVars>>

\* the loads of ReferenceLap
LoadRecording == LoadReferenceFrom(LoadInputs)

\* The reference lap: loads of any recording, thresholds changed in between
NextRef == LoadRecording \/ RefreshCall
SpecRef == Init /\ [][NextRef]_vars

\* ReferenceLap.ref_at_pct(self.speed, pct) called at any position
ValueAtCall ==
    \E pct \in PctQueries :
      /\ ~IsNone(reference)
      /\ obs' = [pct |-> pct,
                 op |-> "value_at",
                 out |-> ref_at_pct(reference[1], reference[1].speed, pct)]
      /\ UNCHANGED <<engVars, audVars, appVars, posVars, refVars, telVars, thrVars, lap, hist, gearVars>>

LoadSpeedRecording == LoadReferenceFrom(ValueAtLoadInputs)

\* The interpolated query on any loaded reference lap
NextValueAt == LoadSpeedRecording \/ ValueAtCall
SpecValueAt == Init /\ [][NextValueAt]_vars

\* NishizumiApp._next_brake_distance
next_brake_distance(ref, lap_pct, track_len_m) ==
    IF IsNone(ref) \/ ref[1].brake_points = <<>> \/ ~Truthy(track_len_m)
    THEN NoneV
    ELSE LET current_dist == Mul(lap_pct, track_len_m[1])
             dist_list == [k \in 1..Len(ref[1].brake_points) |->
                              Mul(ref[1].brake_points[k], track_len_m[1])]
             idx == bisect_left(dist_list, current_dist, 0, Len(dist_list))
             next_dist == IF idx < Len(dist_list) THEN dist_list[idx + 1] ELSE dist_list[1]
         IN  Some(PyMod(next_dist - current_dist, track_len_m[1]))

\* _next_brake_distance called at any position, with or without a reference
NextBrakeCall ==
    \E pct \in NextBrakePctInputs, len \in NextBrakeTrackLenInputs :
      /\ obs' = [pct |-> pct,
                 op |-> "next_brake",
                 len |-> len,
                 out |-> next_brake_distance(reference, pct, len)]
      /\ UNCHANGED <<engVars, audVars, appVars, posVars, refVars, telVars, thrVars, lap, hist, gearVars>>

LoadBrakeRecording == LoadReferenceFrom(NextBrakeLoadInputs)

\* The distance to the next brake point on any loaded reference lap
NextBrake == LoadBrakeRecording \/ NextBrakeCall
SpecNextBrake == Init /\ [][NextBrake]_vars

\* The cue engine driven tick by tick, the worker taking whole items in between
NextCue == LoadReference \/ Tick \/ WorkerItem \/ Reset
SpecCue == Init /\ [][NextCue]_vars

\* the tick with the threshold variables changed by the user between two ticks,
\* with no track length known
ThresholdTick == TickWith(ThresholdInputs, RederiveLapPctInputs, {NoneV})

LoadRederive == LoadReferenceFrom(RederiveLoadInputs)

\* The cue engine while the thresholds change in the middle of a lap
NextRederive == LoadRederive \/ ThresholdTick \/ WorkerItem
SpecRederive == Init /\ [][NextRederive]_vars

----------------------------------------------------------------------------
(* NishizumiApp._update, the part that drives the position unwrapper *)

\* NishizumiApp._update_live_unwrapped (track_len_m > 0): the new Live Position State
update_live_unwrapped_stale_last(last, unwrapped, lap_pct, track_len_m) ==
    IF IsNone(last) \/ IsNone(unwrapped)
    THEN [last |-> Some(lap_pct), unwrapped |-> Some(Mul(lap_pct, track_len_m))]
    ELSE LET delta0 == lap_pct - last[1]
             delta_pct == IF delta0 < -500 THEN delta0 + 1000 ELSE delta0
         IN  [last |-> last, unwrapped |-> Some(unwrapped[1] + Mul(delta_pct, track_len_m))]

update_live_unwrapped(last, unwrapped, lap_pct, track_len_m) ==
    IF track_len_m <= 0 THEN [last |-> last, unwrapped |-> unwrapped]
    ELSE IF IsNone(last) \/ IsNone(unwrapped)
    THEN [last |-> Some(lap_pct), unwrapped |-> Some(Mul(lap_pct, track_len_m))]
    ELSE LET delta0 == lap_pct - last[1]
             delta_pct == IF delta0 < -500 THEN delta0 + 1000 ELSE delta0
         IN  [last |-> Some(lap_pct),
              unwrapped |-> Some(unwrapped[1] + Mul(delta_pct, track_len_m))]

\* _update, the branches `not snapshot.connected` and `snapshot.lap_pct is None`:
\* the new Live Position State
unset_keeps_position(last, unwrapped) == [last |-> last, unwrapped |-> unwrapped]

unset_live_position(last, unwrapped) == [last |-> NoneV, unwrapped |-> NoneV]

\* The scheduling tick with a disconnected snapshot or with one that has no
\* lap_pct: the events of a loaded reference are derived again, the Live Position
\* State is unset and the next tick is scheduled
NoPositionTick ==
    \E connected \in BOOLEAN :
      LET snap_pct == NoneV      \* TelemetrySnapshot(connected=False) has no lap_pct either
          u == unset_live_position(last_live_lap_pct, live_unwrapped_m)
          th == DefaultThresholds
      IN  /\ ~connected \/ IsNone(snap_pct)
          /\ pending_ticks >= 1
          /\ reference' = IF IsNone(reference) THEN reference
                          ELSE Some(refresh_thresholds(reference[1], th[1], th[2], th[3]))
          /\ last_live_lap_pct' = u.last
          /\ live_unwrapped_m' = u.unwrapped
          /\ pending_ticks' = schedule_next(pending_ticks)
          /\ trk' = [TrkNone EXCEPT !.before = IF IsNone(last_live_lap_pct)
                                               THEN trk.before
                                               ELSE last_live_lap_pct]
          /\ last_gear' = NoneV
          /\ obs' = ObsNone(IF ~connected THEN "disconnected" ELSE "no_position")
          /\ UNCHANGED <<engVars, audVars, last_track_len_m, telVars, thrVars, lap, hist>>

\* The scheduling tick with a connected snapshot that has a position and with no
\* reference loaded (audio.update is not called): _update_live_unwrapped runs
\* with trace_track_len_m = track_len_display_m or ASSUMED_TRACK_LEN_M
PosTick ==
    \E snap_pct \in {Some(x) : x \in PosLapPctInputs}, km \in TrackLengthKmInputs :
        LET lap_pct == normalize_lap_pct(snap_pct[1])
            tl == track_len_display(km, last_track_len_m, NoneV)
            trace_track_len_m == IF Truthy(tl.display) THEN tl.display[1]
                                 ELSE ASSUMED_TRACK_LEN_M
            r == update_live_unwrapped(last_live_lap_pct, live_unwrapped_m, lap_pct,
                                       trace_track_len_m)
            seed == IsNone(last_live_lap_pct) \/ IsNone(live_unwrapped_m)
            wrap == ~seed /\ lap_pct - last_live_lap_pct[1] < -500
            wraps == IF seed THEN 0 ELSE trk.wraps + (IF wrap THEN 1 ELSE 0)
        IN  /\ wraps <= MaxWraps
            /\ pending_ticks >= 1
            /\ IsNone(reference)
            /\ pending_ticks' = schedule_next(pending_ticks)
            /\ last_live_lap_pct' = r.last
            /\ live_unwrapped_m' = r.unwrapped
            /\ last_track_len_m' = tl.last
            /\ trk' = IF seed
                      THEN [len |-> Some(trace_track_len_m), same_len |-> TRUE,
                            mono |-> TRUE, wraps |-> 0, n |-> 1, before |-> trk.before]
                      ELSE [len |-> trk.len, before |-> NoneV,
                            same_len |-> trk.same_len /\ trk.len = Some(trace_track_len_m),
                            mono |-> trk.mono /\ lap_pct >= last_live_lap_pct[1],
                            wraps |-> wraps,
                            n |-> IF trk.n < 3 THEN trk.n + 1 ELSE 3]
            /\ obs' = ObsNone("position")
            /\ UNCHANGED <<engVars, audVars, telVars, thrVars, refVars, lap, hist, gearVars>>

\* The scheduling tick whose first statement, int(self.update_ms_var.get()), raises
\* tk.TclError because the "Update rate (ms)" entry holds no integer: the callback
\* ends there, before any other statement and before _schedule_next
TickRaises ==
    /\ pending_ticks >= 1
    /\ pending_ticks' = pending_ticks - 1
    /\ obs' = ObsNone("raised")
    /\ UNCHANGED <<engVars, audVars, last_track_len_m, posVars, refVars, telVars, thrVars, lap, hist, gearVars>>

\* The application: ticks of every kind, reference loads, the playback worker
NextApp == Tick \/ NoPositionTick \/ TickRaises \/ LoadReference \/ WorkerItem \/ Reset
SpecApp == Init /\ [][NextApp]_vars

----------------------------------------------------------------------------
(* AudioCues.update called directly, with any track length and enable flags *)

\* One call of AudioCues.update, every _play_pattern call included; the events are
\* those of the reference, with dist_m set when a track length is given
UpdateCall ==
    \E inp \in UpdateInputs, a_var \in ApproachAInputs, b_var \in ApproachBInputs,
       off_var \in FinalCueOffsetInputs, quiet \in QuietInputs :
      LET calls == IF obs.op = "update" THEN obs.calls ELSE 0
          events == IF Truthy(inp.track_len_m)
                    THEN set_event_distances(RefEvents, inp.track_len_m[1]) ELSE RefEvents
          cfg == [approach_a_s |-> a_var, approach_b_s |-> b_var,
                  final_cue_offset_m |-> off_var, enable_brake |-> inp.enable_brake,
                  enable_lift |-> TRUE, enable_power |-> inp.enable_power,
                  quiet_mode |-> quiet, speed_mps |-> NoneV]
          mid == rollover_check(Engine, inp.lap_pct)
          disabled == {i \in EventIdx :
                         \/ RefEvents[i + 1].kind = "brake" /\ ~inp.enable_brake
                         \/ RefEvents[i + 1].kind = "power" /\ ~inp.enable_power}
      IN  \E r \in {update(Engine, inp.lap_pct, inp.track_len_m, events, cfg)} :
          \E aud \in {play_all([queue |-> audio_queue, current |-> current_priority],
                                r.cues)} :
          /\ calls < MaxCalls
          /\ r.lap_id <= MaxLap
          /\ stage_state' = r.stage_state
          /\ last_dist_to_event' = r.last_dist_to_event
          /\ last_lap_pct' = r.last_lap_pct
          /\ lap_id' = r.lap_id
          /\ audio_queue' = aud.queue
          /\ current_priority' = aud.current
          /\ obs' = [op |-> "update", calls |-> calls + 1, mode |-> r.mode,
                     track_len_m |-> inp.track_len_m, lap_pct |-> inp.lap_pct,
                     fresh |-> mid.stage_state = EmptyDict
                               /\ mid.last_dist_to_event = EmptyDict,
                     disabled |-> disabled,
                     kept |-> {i \in disabled :
                                 /\ DictGet(r.stage_state, i) = DictGet(mid.stage_state, i)
                                 /\ DictGet(r.last_dist_to_event, i)
                                      = DictGet(mid.last_dist_to_event, i)},
                     had_entry |-> {i \in disabled : i \in DOMAIN mid.stage_state},
                     cue_idx |-> {r.cues[k].idx : k \in 1..Len(r.cues)}]
          /\ UNCHANGED <<appVars, posVars, refVars, telVars, thrVars, lap, hist, gearVars>>

NextUpdate == UpdateCall
SpecUpdate == Init /\ [][NextUpdate]_vars

----------------------------------------------------------------------------
(* AudioCues._approach_distances applied to any speed and lead times *)

ApproachCall ==
    \E speed_mps \in ApproachSpeedInputs, approach_a_s \in LeadTimeInputs,
       approach_b_s \in LeadTimeInputs :
      /\ obs' = [op |-> "approach", speed_mps |-> speed_mps,
                 approach_a_s |-> approach_a_s, approach_b_s |-> approach_b_s,
                 out |-> approach_distances(speed_mps, approach_a_s, approach_b_s)]
      /\ UNCHANGED <<engVars, audVars, appVars, posVars, refVars, telVars, thrVars, lap, hist, gearVars>>

NextApproach == ApproachCall
SpecApproach == Init /\ [][NextApproach]_vars

----------------------------------------------------------------------------
(* AudioCues._play_pattern called with each pattern of the tone tables *)

\* the cues of every kind and stage, in normal and in quiet mode
PatternCueInputs ==
    {[idx |-> 0, kind |-> k, stage |-> st, quiet |-> q] :
        k \in {"brake", "lift", "power"}, st \in Stages, q \in BOOLEAN}

\* _play_pattern(self._pattern_for(kind, stage), quiet_mode, stage), run to its end
PlayPatternCall ==
    \E cue \in PatternCueInputs :
      LET aud == play_pattern([queue |-> audio_queue, current |-> current_priority],
                              cue, 0)
      IN  /\ Len(aud.queue) <= MaxQueue
          /\ audio_queue' = aud.queue
          /\ current_priority' = aud.current
          /\ obs' = [op |-> "play", quiet |-> cue.quiet,
                     original |-> pattern_for(cue.kind, cue.stage)]
          /\ UNCHANGED <<engVars, appVars, posVars, refVars, telVars, thrVars, lap, hist, gearVars>>

NextPattern == PlayPatternCall \/ WorkerItem
SpecPattern == Init /\ [][NextPattern]_vars

\* The position unwrapper driven tick by tick
NextPos == PosTick \/ NoPositionTick
SpecPos == Init /\ [][NextPos]_vars

\* NishizumiApp._maybe_play_gear_beep: the new last_gear and the tones it emits
\* itself, winsound.Beep(1100, 80) with winsound and self.root.bell() without
maybe_play_gear_beep(last, gear, gear_beep, has_winsound) ==
    LET changed == ~IsNone(last) /\ gear # last
    IN  IF ~gear_beep THEN [last_gear |-> gear, beeps |-> 0, bells |-> 0]
        ELSE IF IsNone(gear) THEN [last_gear |-> NoneV, beeps |-> 0, bells |-> 0]
        ELSE [last_gear |-> gear,
              beeps |-> IF changed /\ has_winsound THEN 1 ELSE 0,
              bells |-> IF changed /\ ~has_winsound THEN 1 ELSE 0]

\* The scheduling tick with a connected snapshot that has a position, the part
\* of _update around _maybe_play_gear_beep(snapshot.gear); the record of the tick
\* keeps the calls of winsound.Beep and of root.bell the tick made itself
GearTick ==
    \E gear \in GearInputs, gear_beep \in BOOLEAN, has_winsound \in BOOLEAN :
      \E r \in {maybe_play_gear_beep(last_gear, gear, gear_beep, has_winsound)} :
        /\ pending_ticks >= 1
        /\ last_gear' = r.last_gear
        /\ pending_ticks' = schedule_next(pending_ticks)
        /\ obs' = [gear |-> gear,
                   before |-> last_gear,
                   op |-> "gear",
                   gear_beep |-> gear_beep,
                   has_winsound |-> has_winsound,
                   beeps |-> r.beeps,
                   bells |-> r.bells]
        /\ UNCHANGED <<engVars, audVars, last_track_len_m, posVars, refVars, telVars, thrVars,
                       lap, hist>>

\* The gear beep tick by tick, telemetry lost in between
NextGear == GearTick \/ NoPositionTick
SpecGear == Init /\ [][NextGear]_vars

----------------------------------------------------------------------------
(* The tick thread inside _play_pattern and reset, and the playback worker     *)
(* thread inside _audio_worker, one shared access per step.  _audio_stop is    *)
(* never set and no None item is ever put, so the worker loop does not end.    *)

\* the cues an update can hand to _play_pattern
AudioCueInputs ==
    {[idx |-> i, kind |-> RefEvents[i + 1].kind, stage |-> st, quiet |-> q] :
        i \in EventIdx, st \in Stages, q \in QuietInputs}

\* _clear_audio_queue: get_nowait raises queue.Empty, which ends the loop
queue_empty(queue) == queue = <<>>

\* _audio_worker: `self._current_priority is not None and priority > self._current_priority`
preempted(priority, current) == ~IsNone(current) /\ priority > current[1]

\* _play_pattern is entered: the item is built, nothing shared is touched yet
PlayCall ==
    /\ epc = "idle"
    /\ hist.next_id <= MaxCues
    /\ \E cue \in AudioCueInputs :
         LET item == make_item(cue, hist.next_id)
         IN  /\ ecue' = Some(item)
             /\ epc' = IF preempts(item.priority) THEN "clear" ELSE "put"
    /\ hist' = [hist EXCEPT !.next_id = @ + 1]
    /\ UNCHANGED <<engVars, audVars, appVars, posVars, refVars, telVars, wpc, witem, wleft, lap, obs, gearVars>>

\* reset is entered: the engine fields are cleared, then the queue is drained
ResetCall ==
    /\ epc = "idle"
    /\ hist.next_id > 1
    /\ stage_state' = EmptyDict
    /\ last_dist_to_event' = EmptyDict
    /\ last_lap_pct' = NoneV
    /\ lap_id' = 0
    /\ epc' = "rclear"
    /\ UNCHANGED <<audVars, appVars, posVars, refVars, telVars, wpc, witem, wleft, ecue, lap, obs, hist, gearVars>>

\* _clear_audio_queue: one get_nowait, or queue.Empty ending the loop
ClearStep ==
    /\ epc \in {"clear", "rclear"}
    /\ IF queue_empty(audio_queue)
       THEN /\ epc' = IF epc = "clear" THEN "signal" ELSE "idle"
            /\ UNCHANGED <<audio_queue, hist>>
       ELSE /\ audio_queue' = Tail(audio_queue)
            /\ hist' = [hist EXCEPT !.flushed = @ \cup
                          {[id |-> Head(audio_queue).id,
                            priority |-> Head(audio_queue).priority,
                            by |-> IF epc = "clear" THEN Some(ecue[1].priority) ELSE ByReset]}]
            /\ UNCHANGED epc
    /\ UNCHANGED <<engVars, current_priority, appVars, posVars, refVars, telVars, wpc, witem, wleft,
                   ecue, lap, obs, gearVars>>

\* _play_pattern: `with self._priority_lock: self._current_priority = priority`
SignalStep ==
    /\ epc = "signal"
    /\ current_priority' = Some(ecue[1].priority)
    /\ epc' = "put"
    /\ hist' = [hist EXCEPT !.signalled = @ \cup
                  IF /\ ~IsNone(witem)
                     /\ witem[1].priority > ecue[1].priority
                     /\ \/ wpc \in {"setprio", "check"} /\ wleft # <<>>
                        \/ wpc = "beep" /\ Len(wleft) >= 2
                  THEN {witem[1].id} ELSE {}]
    /\ UNCHANGED <<engVars, audio_queue, appVars, posVars, refVars, telVars, wpc, witem, wleft, ecue,
                   lap, obs, gearVars>>

\* _play_pattern: self._audio_queue.put((priority, pattern))
PutStep ==
    /\ epc = "put"
    /\ audio_queue' = Append(audio_queue, ecue[1])
    /\ epc' = "idle"
    /\ ecue' = NoneV
    /\ UNCHANGED <<engVars, current_priority, appVars, posVars, refVars, telVars, wpc, witem, wleft,
                   lap, obs, hist, gearVars>>

\* _audio_worker: item = self._audio_queue.get(timeout=0.05) returns an item
\* (on queue.Empty the loop just tries again)
WGet ==
    /\ wpc = "get"
    /\ audio_queue # <<>>
    /\ witem' = Some(Head(audio_queue))
    /\ wleft' = Head(audio_queue).pattern
    /\ audio_queue' = Tail(audio_queue)
    /\ wpc' = "setprio"
    /\ hist' = [hist EXCEPT !.dequeued = @ \cup {Head(audio_queue).id}]
    /\ UNCHANGED <<engVars, current_priority, appVars, posVars, refVars, telVars, epc, ecue, lap, obs, gearVars>>

\* _audio_worker: `with self._priority_lock: self._current_priority = priority`
WSetPriority ==
    /\ wpc = "setprio"
    /\ current_priority' = Some(witem[1].priority)
    /\ wpc' = "check"
    /\ UNCHANGED <<engVars, audio_queue, appVars, posVars, refVars, telVars, witem, wleft, epc, ecue,
                   lap, obs, hist, gearVars>>

\* _audio_worker: the head of `for ... in pattern` and the locked check before a tone
WCheck ==
    /\ wpc = "check"
    /\ wpc' = IF wleft = <<>> \/ preempted(witem[1].priority, current_priority)
              THEN "reset" ELSE "beep"
    /\ UNCHANGED <<engVars, audVars, appVars, posVars, refVars, telVars, witem, wleft, epc, ecue,
                   lap, obs, hist, gearVars>>

\* _audio_worker: winsound.Beep(frequency, duration_ms) and the sleep of the gap
WBeep ==
    /\ wpc = "beep"
    /\ wleft' = Tail(wleft)
    /\ wpc' = "check"
    /\ hist' = [hist EXCEPT !.beeped = @ \cup {witem[1].id}]
    /\ UNCHANGED <<engVars, audVars, appVars, posVars, refVars, telVars, witem, epc, ecue, lap, obs, gearVars>>

\* _audio_worker: after the loop, `with self._priority_lock: self._current_priority = None`
WReset ==
    /\ wpc = "reset"
    /\ current_priority' = NoneV
    /\ witem' = NoneV
    /\ wleft' = <<>>
    /\ wpc' = "get"
    /\ UNCHANGED <<engVars, audio_queue, appVars, posVars, refVars, telVars, epc, ecue, lap, obs, hist, gearVars>>

\* The tick thread enqueuing cues and resetting, interleaved with the worker
NextAudio ==
    \/ PlayCall \/ ResetCall \/ ClearStep \/ SignalStep \/ PutStep
    \/ WGet \/ WSetPriority \/ WCheck \/ WBeep \/ WReset
SpecAudio == Init /\ [][NextAudio]_vars

----------------------------------------------------------------------------
(* The ingest thread inside TelemetryWorker.run and the tick inside _update    *)
(* around get_snapshot, one shared access per step; _on_close stops the worker *)
(* between two callbacks of the tick.  ir.startup and the reads return.        *)

\* run: the head of the loop, `while not self._stop_event.is_set()`
IngestPoll ==
    /\ ipc = "poll"
    /\ IF stop_is_set(stop_event)
       THEN ipc' = "done"
       ELSE /\ Len(objects) <= MaxSnapshots
            /\ ipc' = "startup"
    /\ UNCHANGED <<engVars, audVars, appVars, posVars, refVars, thrVars, lap, obs, hist, gearVars>>
    /\ UNCHANGED <<stop_event, lock, snapshot, objects, itarget, iargs, tpc, tsnap, tseen, published>>

\* run: startup and the reads of one iteration, up to the call of
\* TelemetrySnapshot(...): not connected or an exception gives the arguments of
\* the disconnected snapshot, else those of a connected one; the new object
\* exists with the defaults of the class
IngestRead ==
    /\ ipc = "startup"
    /\ \E connected \in BOOLEAN, raises \in BOOLEAN, lap_pct \in IngestLapPctInputs :
         /\ iargs' = IF connected /\ ~raises
                     THEN TelemetrySnapshot(TRUE, Len(objects), Some(lap_pct))
                     ELSE TelemetrySnapshot(FALSE, Len(objects), NoneV)
    /\ itarget' = new_object(snapshot, Len(objects))
    /\ objects' = IF new_object(snapshot, Len(objects)) > Len(objects)
                  THEN Append(objects, TelemetrySnapshot(FALSE, 0, NoneV)) ELSE objects
    /\ ipc' = "init1"
    /\ UNCHANGED <<engVars, audVars, appVars, posVars, refVars, thrVars, lap, obs, hist, gearVars>>
    /\ UNCHANGED <<stop_event, lock, snapshot, tpc, tsnap, tseen, published>>

\* TelemetrySnapshot.__init__: self.connected and self.timestamp are assigned
IngestInit1 ==
    /\ ipc = "init1"
    /\ objects' = [objects EXCEPT ![itarget].connected = iargs.connected,
                                  ![itarget].timestamp = iargs.timestamp]
    /\ ipc' = "init2"
    /\ UNCHANGED <<engVars, audVars, appVars, posVars, refVars, thrVars, lap, obs, hist, gearVars>>
    /\ UNCHANGED <<stop_event, lock, snapshot, itarget, iargs, tpc, tsnap, tseen, published>>

\* TelemetrySnapshot.__init__: self.lap_pct and the fields after it are assigned
IngestInit2 ==
    /\ ipc = "init2"
    /\ objects' = [objects EXCEPT ![itarget].lap_pct = iargs.lap_pct]
    /\ ipc' = "acquire"
    /\ UNCHANGED <<engVars, audVars, appVars, posVars, refVars, thrVars, lap, obs, hist, gearVars>>
    /\ UNCHANGED <<stop_event, lock, snapshot, itarget, iargs, tpc, tsnap, tseen, published>>

\* _set_snapshot: `with self._lock:` is entered
IngestAcquire ==
    /\ ipc = "acquire"
    /\ lock = "free"
    /\ lock' = "ingest"
    /\ ipc' = "assign"
    /\ UNCHANGED <<engVars, audVars, appVars, posVars, refVars, thrVars, lap, obs, hist, gearVars>>
    /\ UNCHANGED <<stop_event, snapshot, objects, itarget, iargs, tpc, tsnap, tseen, published>>

\* _set_snapshot: `self._snapshot = snapshot`
IngestAssign ==
    /\ ipc = "assign"
    /\ snapshot' = itarget
    /\ published' = [values |-> published.values \cup {objects[itarget]},
                     after_stop |-> published.after_stop + (IF stop_event THEN 1 ELSE 0)]
    /\ ipc' = "release"
    /\ UNCHANGED <<engVars, audVars, appVars, posVars, refVars, thrVars, lap, obs, hist, gearVars>>
    /\ UNCHANGED <<stop_event, lock, objects, itarget, iargs, tpc, tsnap, tseen>>

\* _set_snapshot: `with self._lock:` is left
IngestRelease ==
    /\ ipc = "release"
    /\ lock' = "free"
    /\ ipc' = "sleep"
    /\ UNCHANGED <<engVars, audVars, appVars, posVars, refVars, thrVars, lap, obs, hist, gearVars>>
    /\ UNCHANGED <<stop_event, snapshot, objects, itarget, iargs, tpc, tsnap, tseen, published>>

\* run: time.sleep(0.008) or time.sleep(0.5) returns
IngestSleep ==
    /\ ipc = "sleep"
    /\ ipc' = "poll"
    /\ UNCHANGED <<engVars, audVars, appVars, posVars, refVars, thrVars, lap, obs, hist, gearVars>>
    /\ UNCHANGED <<stop_event, lock, snapshot, objects, itarget, iargs, tpc, tsnap, tseen, published>>

\* get_snapshot: `with self._lock:` is entered by a callback of the tick
TickAcquire ==
    /\ tpc = "idle"
    /\ ~stop_event
    /\ lock = "free"
    /\ lock' = "tick"
    /\ tpc' = "locked"
    /\ UNCHANGED <<engVars, audVars, appVars, posVars, refVars, thrVars, lap, obs, hist, gearVars>>
    /\ UNCHANGED <<stop_event, snapshot, objects, ipc, itarget, iargs, tsnap, tseen, published>>

\* get_snapshot: `return self._snapshot`
TickReturn ==
    /\ tpc = "locked"
    /\ tsnap' = snapshot
    /\ tpc' = "unlock"
    /\ UNCHANGED <<engVars, audVars, appVars, posVars, refVars, thrVars, lap, obs, hist, gearVars>>
    /\ UNCHANGED <<stop_event, lock, snapshot, objects, ipc, itarget, iargs, tseen, published>>

\* get_snapshot: `with self._lock:` is left
TickRelease ==
    /\ tpc = "unlock"
    /\ lock' = "free"
    /\ tpc' = "read1"
    /\ UNCHANGED <<engVars, audVars, appVars, posVars, refVars, thrVars, lap, obs, hist, gearVars>>
    /\ UNCHANGED <<stop_event, snapshot, objects, ipc, itarget, iargs, tsnap, tseen, published>>

\* _update: `if not snapshot.connected` (the timestamp is read with it)
TickRead1 ==
    /\ tpc = "read1"
    /\ tseen' = [tseen EXCEPT !.connected = objects[tsnap].connected,
                              !.timestamp = objects[tsnap].timestamp]
    /\ tpc' = "read2"
    /\ UNCHANGED <<engVars, audVars, appVars, posVars, refVars, thrVars, lap, obs, hist, gearVars>>
    /\ UNCHANGED <<stop_event, lock, snapshot, objects, ipc, itarget, iargs, tsnap, published>>

\* _update: `lap_pct = snapshot.lap_pct` and the reads after it; the callback ends
TickRead2 ==
    /\ tpc = "read2"
    /\ tseen' = [tseen EXCEPT !.lap_pct = objects[tsnap].lap_pct]
    /\ tpc' = "idle"
    /\ obs' = [op |-> "snapshot", seen |-> tseen']
    /\ UNCHANGED <<engVars, audVars, appVars, posVars, refVars, thrVars, lap, hist, gearVars>>
    /\ UNCHANGED <<stop_event, lock, snapshot, objects, ipc, itarget, iargs, tsnap, published>>

\* NishizumiApp._on_close: self.worker.stop(); the root is destroyed, so no
\* callback of the tick runs afterwards
OnClose ==
    /\ tpc = "idle"
    /\ ~stop_event
    /\ stop_event' = TRUE
    /\ UNCHANGED <<engVars, audVars, appVars, posVars, refVars, thrVars, lap, obs, hist, gearVars>>
    /\ UNCHANGED <<lock, snapshot, objects, ipc, itarget, iargs, tpc, tsnap, tseen, published>>

\* the steps of the ingest thread
IngestStep ==
    \/ IngestPoll \/ IngestRead \/ IngestInit1 \/ IngestInit2
    \/ IngestAcquire \/ IngestAssign \/ IngestRelease \/ IngestSleep

\* The ingest thread, the tick reading snapshots, and the close handler
NextIngest ==
    \/ IngestPoll \/ IngestRead \/ IngestInit1 \/ IngestInit2
    \/ IngestAcquire \/ IngestAssign \/ IngestRelease \/ IngestSleep
    \/ TickAcquire \/ TickReturn \/ TickRelease \/ TickRead1 \/ TickRead2 \/ OnClose
SpecIngest == Init /\ [][NextIngest]_vars
\* the ingest thread is a thread of its own: it is scheduled again and again
SpecIngestFair == Init /\ [][NextIngest]_vars /\ WF_vars(IngestStep)

----------------------------------------------------------------------------
(* The playback worker as a fairly scheduled thread, and the close handler *)

\* AudioCues._audio_stop.is_set(): the event is created by __init__, and neither
\* _on_close nor anything else sets it
audio_stop_always_set == TRUE
audio_stop_is_set == FALSE

\* _audio_worker: get(timeout=0.05) raises queue.Empty, `continue` leads to the
\* head of the loop, `while not self._audio_stop.is_set()`
WEmpty ==
    /\ wpc = "get"
    /\ audio_queue = <<>>
    /\ wpc' = IF audio_stop_is_set THEN "done" ELSE "get"
    /\ UNCHANGED <<engVars, audVars, appVars, posVars, refVars, telVars, witem, wleft, epc, ecue,
                   lap, obs, hist, gearVars>>

\* the steps of the playback worker thread
WorkerStep == WGet \/ WSetPriority \/ WCheck \/ WBeep \/ WReset \/ WEmpty

\* The tick thread enqueuing cues, the playback worker as a thread that is
\* scheduled again and again, and the close handler
NextWorker ==
    \/ PlayCall \/ ClearStep \/ SignalStep \/ PutStep
    \/ WGet \/ WSetPriority \/ WCheck \/ WBeep \/ WReset \/ WEmpty
    \/ OnClose
SpecWorkerFair == Init /\ [][NextWorker]_vars /\ WF_vars(WorkerStep)

----------------------------------------------------------------------------
(* Properties of the cue engine, checked under SpecCue *)

StageFlag(i, st) == i \in DOMAIN stage_state /\ stage_state[i][st]
LapBoundaryStep == obs'.op = "reset" \/ (obs'.op = "tick" /\ obs'.roll)

\* C1: for every event index and every lap (the interval between two rollovers
\* or resets) each stage enqueues its cue at most once - the number of cues of a
\* stage enqueued in the lap is 1 when its flag is set and 0 otherwise - and a
\* flag that is true stays true until the next rollover or reset.
C1_OncePerLap ==
    /\ [](\A i \in EventIdx, st \in Stages :
            lap.fired[i][st] = IF StageFlag(i, st) THEN 1 ELSE 0)
    /\ [][\A i \in EventIdx, st \in Stages :
            StageFlag(i, st) =>
                LapBoundaryStep \/ (i \in DOMAIN stage_state' /\ stage_state'[i][st])]_vars

\* C1 witness: in a lap after a rollover all three stages of event 0 have fired
\* once, and on the last tick a further (forced) C attempt was suppressed.
C1_Witness ==
    /\ lap_id = 1
    /\ \A st \in Stages : lap.fired[0][st] = 1
    /\ 0 \in obs.skip /\ ~(0 \in obs.forced)

\* C2: on a tick whose lap fraction is below the previously seen one by more than
\* 0.5 the lap counter grows by exactly 1 and Stage State and Last-Distance Cache
\* are empty before any event is evaluated; on every other tick the rollover
\* check leaves the lap counter, the stage flags and the cache as they were.
C2_Rollover ==
    [][obs'.op = "tick" =>
        IF obs'.roll
        THEN lap_id' = lap_id + 1 /\ obs'.mid_empty
        ELSE lap_id' = lap_id /\ obs'.mid_kept]_vars

\* C2 witness: a rollover tick found flags or cached distances, cleared them, and
\* stage A of an event fired again on that very tick.
C2_Witness ==
    /\ obs.op = "tick" /\ obs.roll /\ obs.mid_empty /\ ~obs.mid_kept
    /\ lap_id = 1
    /\ \E i \in EventIdx : lap.fired[i]["a"] = 1

\* C3: in distance mode and in fraction mode, when the recorded distance of an
\* enabled event was <= approach_B and the distance of this tick is larger, then
\* after the tick the C cue of the event has been enqueued exactly once in the lap.
C3_ForcedC ==
    \A i \in obs.skip : StageFlag(i, "c") /\ lap.fired[i]["c"] = 1

\* C3 witness: the forced path fired the C cue of an event on the last tick
\* (it had not fired before), in distance mode.
C3_Witness ==
    /\ obs.forced # {}
    /\ distance_mode(last_track_len_m)

\* the same in fraction mode
C3_WitnessFractionMode ==
    /\ obs.forced # {}
    /\ IsNone(last_track_len_m)

StagesOrdered ==
    \A i \in DOMAIN stage_state :
        /\ stage_state[i].c => stage_state[i].b
        /\ stage_state[i].b => stage_state[i].a

\* C4 as stated: within a lap, for every sequence of live speeds and positions,
\* the B cue of an event is never enqueued before its A cue and the C cue never
\* before its B cue: in every reachable state c_fired implies b_fired and b_fired
\* implies a_fired, for every event.
C4_Original == StagesOrdered

\* What does hold of the stage order: while every tick of the lap has used the
\* same mode and thresholds (approach_A, approach_B, C threshold) and the C
\* threshold is at most approach_B, c_fired implies b_fired and b_fired implies
\* a_fired, for every event.
OrderedUnderFixedThresholds ==
    (lap.stable /\ ~IsNone(lap.thr) /\ lap.thr[1][3] <= lap.thr[1][2]) => StagesOrdered

\* a lap with unchanged distance-mode thresholds in which A, B and C of an event
\* have all fired
FixedThresholdsLap ==
    /\ lap.stable /\ ~IsNone(lap.thr) /\ lap.thr[1][3] <= lap.thr[1][2]
    /\ distance_mode(last_track_len_m)
    /\ \E i \in EventIdx : \A st \in Stages : StageFlag(i, st)

----------------------------------------------------------------------------
(* Properties of the cue queue and the playback worker, checked under SpecAudio *)

PutOf(priority) ==
    epc = "put" /\ epc' = "idle" /\ ecue[1].priority = priority

\* C5: a priority-2 item pending when a priority-0 cue is enqueued is removed
\* before the new item is added - after the put the queue holds the new item
\* alone, so it is the next item the worker dequeues - and an item removed by the
\* flush is never dequeued or played.
C5_FinalFlushesFar ==
    /\ [](\A f \in hist.flushed : ~(f.id \in hist.dequeued) /\ ~(f.id \in hist.beeped))
    /\ [][PutOf(PRIORITY_C) => audio_queue' = <<ecue[1]>>]_vars

\* C5 witness: a C cue has just been put, it stands alone in the queue, and the
\* A cue enqueued right before it was flushed by it.
C5_Witness ==
    /\ epc = "idle"
    /\ Len(audio_queue) = 1
    /\ audio_queue[1].priority = PRIORITY_C
    /\ [id |-> audio_queue[1].id - 1, priority |-> PRIORITY_A, by |-> Some(PRIORITY_C)]
           \in hist.flushed

\* C6: enqueuing a priority-2 cue is the put alone: it flushes nothing, leaves
\* the current priority as it was and appends the item behind every pending item,
\* so a pending priority-0 item stays ahead of it.
C6_FarOnlyAppends ==
    /\ []((~IsNone(ecue) /\ ecue[1].priority = PRIORITY_A) => epc = "put")
    /\ [][PutOf(PRIORITY_A) =>
            /\ audio_queue' = Append(audio_queue, ecue[1])
            /\ current_priority' = current_priority]_vars

\* C6 witness: an A cue was put behind a pending C cue; the C item is still
\* first and the current priority is still the one the C cue wrote.
C6_Witness ==
    /\ epc = "idle"
    /\ Len(audio_queue) = 2
    /\ audio_queue[1].priority = PRIORITY_C
    /\ audio_queue[2].priority = PRIORITY_A
    /\ audio_queue[2].id = audio_queue[1].id + 1
    /\ current_priority = Some(PRIORITY_C)

\* C7 as stated: enqueuing a B or C cue flushes only pending items of lower
\* priority (greater number) than the new cue; a pending item of equal or higher
\* priority stays in the queue.
C7_Original ==
    \A f \in hist.flushed : f.by # ByReset => f.priority > f.by[1]

\* C8 as stated: when a B or C cue writes the current priority while the worker
\* holds a pattern of lower priority with a check and a tone still to come, the
\* worker's next check lets no further tone of that pattern through.
C8_Original ==
    [][(wpc = "check" /\ ~IsNone(witem) /\ witem[1].id \in hist.signalled)
          => wpc' # "beep"]_vars

\* C9 as stated: the worker sets the current priority to none each time it
\* finishes a pattern, and whenever the worker is idle, the queue is empty and
\* no enqueue (or reset) is in progress, the current priority is none.
C9_Original ==
    /\ [](( wpc = "get" /\ audio_queue = <<>> /\ epc = "idle") => IsNone(current_priority))
    /\ [][(wpc = "reset" /\ wpc' = "get") => IsNone(current_priority')]_vars

----------------------------------------------------------------------------
(* Properties of the position unwrapper, checked under SpecPos *)

MonotoneRun == ~IsNone(live_unwrapped_m) /\ trk.mono /\ trk.same_len

\* C10: from the unset state, with one positive track length L on every tick and
\* lap fractions that never decrease, the unwrapped distance after each tick is
\* lap_fraction * L (seeded at the first tick), and it never decreases. Products
\* and sums are exact here; the rounding of binary floating point is not followed.
C10_MonotoneRunIsExact ==
    /\ [](MonotoneRun =>
            live_unwrapped_m[1] = Mul(last_live_lap_pct[1], trk.len[1]))
    /\ [][(MonotoneRun /\ MonotoneRun') =>
            live_unwrapped_m'[1] >= live_unwrapped_m[1]]_vars

\* C10 witness: a third tick of such a run, ahead of where it was seeded.
C10_Witness ==
    /\ MonotoneRun
    /\ trk.n = 3
    /\ live_unwrapped_m[1] = Mul(990, trk.len[1])

\* C11 as stated: on every tick taken as a lap completion (lap fraction below the
\* last one by more than 0.5) the unwrapped distance after the tick is not less
\* than before it, for every pair of normalized lap fractions and track length.
C11_Original ==
    [][(/\ ~IsNone(last_live_lap_pct) /\ ~IsNone(last_live_lap_pct')
        /\ last_live_lap_pct'[1] - last_live_lap_pct[1] < -500)
          => live_unwrapped_m'[1] >= live_unwrapped_m[1]]_vars

\* C12 as stated: between two resets of the Live Position State the unwrapped
\* distance never decreases from one connected tick to the next, whatever the
\* lap fractions and track lengths.
C12_Original ==
    [][(~IsNone(live_unwrapped_m) /\ ~IsNone(live_unwrapped_m'))
          => live_unwrapped_m'[1] >= live_unwrapped_m[1]]_vars

\* C13: a tick with a disconnected snapshot or a snapshot without lap_pct leaves
\* last_live_lap_pct and live_unwrapped_m both unset, and the first later tick
\* with a lap fraction p sets the unwrapped distance to p * track length, whatever
\* position was held before.
C13_UnsetThenReseed ==
    /\ [](obs.op \in {"disconnected", "no_position"} =>
            IsNone(last_live_lap_pct) /\ IsNone(live_unwrapped_m))
    /\ [][(obs.op \in {"disconnected", "no_position"} /\ obs'.op = "position") =>
            /\ trk'.n = 1
            /\ ~IsNone(last_live_lap_pct')
            /\ live_unwrapped_m' = Some(Mul(last_live_lap_pct'[1], trk'.len[1]))]_vars

\* C13 witness: the position was 0.99 when the state was unset; the next tick
\* with a position, 0.05, seeded the distance at 0.05 * track length.
C13_Witness ==
    /\ obs.op = "position"
    /\ trk.n = 1
    /\ trk.before = Some(990)
    /\ last_live_lap_pct = Some(50)
    /\ live_unwrapped_m = Some(Mul(50, trk.len[1]))

----------------------------------------------------------------------------
(* Properties of the application's handlers, checked under SpecApp *)

\* C14 as stated: a tick with a disconnected snapshot resets all per-lap
\* transient state, the cue engine's Stage State, Last-Distance Cache and last
\* seen lap fraction included.
C14_Original ==
    obs.op = "disconnected" =>
        /\ stage_state = EmptyDict
        /\ last_dist_to_event = EmptyDict
        /\ IsNone(last_lap_pct)

\* C15 as stated: every execution of the scheduling tick schedules exactly one
\* next tick, so one callback of the tick is pending whenever no tick is running.
C15_Original == pending_ticks = 1

\* C16 as stated: explicit reset of the cue engine empties Stage State and
\* Last-Distance Cache and clears the last lap fraction, the lap counter and the
\* pending cue queue, and loading a reference lap performs this reset.
C16_Original ==
    obs.op \in {"reset", "load"} =>
        /\ stage_state = EmptyDict
        /\ last_dist_to_event = EmptyDict
        /\ IsNone(last_lap_pct)
        /\ lap_id = 0
        /\ audio_queue = <<>>

----------------------------------------------------------------------------
(* Properties of AudioCues.update called directly, checked under SpecUpdate *)

\* C17: update runs the distance loop exactly when the track length passed to it
\* is known and greater than 1; on every other call (absent, 0, at most 1) it runs
\* the fraction loop, whose thresholds are 0.02, 0.01 and 0.001 of a lap: on a call
\* with nothing cached an enabled event at fraction distance d gets the flags
\* a = (d <= 0.02), b = (d <= 0.01), c = (d <= 0.001) and the cache entry d.
C17_ModeByTrackLength ==
    obs.op = "update" =>
        /\ obs.mode \in {"distance", "fraction"}
        /\ obs.mode = "distance"
             <=> (~IsNone(obs.track_len_m) /\ obs.track_len_m[1] > 1000)
        /\ (obs.mode = "fraction" /\ obs.fresh) =>
             \A i \in EventIdx \ obs.disabled :
               LET d == (RefEvents[i + 1].lap_pct - obs.lap_pct) % 1000
               IN  /\ i \in DOMAIN stage_state
                   /\ stage_state[i] = [a |-> d <= 20, b |-> d <= 10, c |-> d <= 1]
                   /\ last_dist_to_event[i] = d

\* C17 witness: a first call with track length exactly 1.0 ran the fraction loop;
\* the brake event, 0.02 of a lap ahead, fired A and neither B nor C.
C17_Witness ==
    /\ obs.op = "update" /\ obs.fresh
    /\ obs.track_len_m = Some(1000)
    /\ obs.mode = "fraction"
    /\ obs.lap_pct = 480
    /\ stage_state[0] = [a |-> TRUE, b |-> FALSE, c |-> FALSE]

\* C19: an event whose kind is switched off by its enable flag is skipped by the
\* call: no cue is enqueued for it and its Stage State entry and Last-Distance
\* Cache entry are as they were when the event loop began, in either mode.
C19_DisabledSkipped ==
    obs.op = "update" =>
        \A i \in obs.disabled : i \in obs.kept /\ ~(i \in obs.cue_idx)

\* C19 witness: in distance mode (1 km) the brake event keeps the flags and the
\* distance of 10 m cached by an earlier call at 0.49, although this call is at
\* 0.51, past it; the power event was handled and is cached at its 10 m.
C19_Witness ==
    /\ obs.op = "update"
    /\ obs.mode = "distance"
    /\ obs.disabled = {0}
    /\ obs.had_entry = {0}
    /\ stage_state[0].a
    /\ last_dist_to_event[0] = 10000 /\ obs.lap_pct = 510
    /\ last_dist_to_event[1] = 10000

\* the same in fraction mode
C19_WitnessFractionMode ==
    /\ obs.op = "update"
    /\ obs.mode = "fraction"
    /\ obs.disabled = {0}
    /\ obs.had_entry = {0}
    /\ stage_state[0].a
    /\ last_dist_to_event[0] = 10 /\ obs.lap_pct = 510
    /\ last_dist_to_event[1] = 10

----------------------------------------------------------------------------
(* Properties of _approach_distances, checked under SpecApproach *)

\* C18: for every live speed (absent, zero and negative included) and every pair
\* of lead times the thresholds satisfy approach_A >= 1.0, approach_B >= 0.5 and
\* approach_B < approach_A.
C18_ApproachOrdered ==
    obs.op = "approach" =>
        /\ obs.out[1] >= 1000
        /\ obs.out[2] >= 500
        /\ obs.out[2] < obs.out[1]

\* C18 witness: at 10 m/s with lead times 1.0 s and 2.0 s, B would be 20 m against
\* A = 10 m; the result is A = 10 m and B shrunk to 5 m.
C18_Witness ==
    /\ obs.op = "approach"
    /\ obs.speed_mps = Some(10000)
    /\ obs.approach_a_s = 1000 /\ obs.approach_b_s = 2000
    /\ obs.out = <<10000, 5000>>

----------------------------------------------------------------------------
(* Properties of the quiet-mode scaling, checked under SpecPattern *)

\* the pattern of the item the last _play_pattern call put on the queue
Enqueued == audio_queue[Len(audio_queue)].pattern

\* C20 as stated: in quiet mode every duration and every gap of the enqueued
\* pattern is strictly smaller than the corresponding duration and gap of the
\* original pattern, for every pattern of the three tone tables.
C20_Original ==
    (obs.op = "play" /\ obs.quiet) =>
        /\ Len(Enqueued) = Len(obs.original)
        /\ \A k \in 1..Len(obs.original) :
             /\ Enqueued[k][2] < obs.original[k][2]
             /\ Enqueued[k][3] < obs.original[k][3]

\* C20 amended: in quiet mode every duration of the enqueued pattern is strictly
\* smaller than the original duration, every gap is at most the original gap - a
\* gap of 0, which is every gap of the three tone tables, stays 0 - and the
\* frequencies are unchanged, for every pattern of the three tone tables.
C20_QuietShortens ==
    (obs.op = "play" /\ obs.quiet) =>
        /\ Len(Enqueued) = Len(obs.original)
        /\ \A k \in 1..Len(obs.original) :
             /\ Enqueued[k][1] = obs.original[k][1]
             /\ Enqueued[k][2] < obs.original[k][2]
             /\ Enqueued[k][3] <= obs.original[k][3]
             /\ obs.original[k][3] = 0 => Enqueued[k][3] = 0

\* C20 witness: the final brake cue (1300 Hz, 700 ms, gap 0) was enqueued in
\* quiet mode as (1300 Hz, 420 ms, gap 0).
C20_Witness ==
    /\ obs.op = "play" /\ obs.quiet
    /\ obs.original = << <<1300, 700, 0>> >>
    /\ Enqueued = << <<1300, 420, 0>> >>

\* the time a pattern takes to play: the sum of its tone durations and gaps
RECURSIVE TotalMs(_)
TotalMs(pattern) ==
    IF pattern = <<>> THEN 0
    ELSE pattern[1][2] + pattern[1][3] + TotalMs(Tail(pattern))

\* C21: in quiet mode the total duration of the enqueued pattern (sum of all tone
\* durations and gaps) is never greater than the total duration of the original
\* pattern.
C21_QuietTotalNotLonger ==
    (obs.op = "play" /\ obs.quiet) => TotalMs(Enqueued) <= TotalMs(obs.original)

\* C21 witness: the far brake cue (90 ms in all) was enqueued in quiet mode and
\* takes 54 ms in all.
C21_Witness ==
    /\ obs.op = "play" /\ obs.quiet
    /\ TotalMs(obs.original) = 90
    /\ TotalMs(Enqueued) = 54

----------------------------------------------------------------------------
(* The events of the loaded reference of the application *)

\* the events without the distances a tick has set
Undistanced(events) == [i \in 1..Len(events) |-> [events[i] EXCEPT !.dist_m = NoneV]]

\* The reference the application loads has the events RefEvents.
AppEventsAreRefEvents ==
    ~IsNone(reference) => Undistanced(reference[1].events) = RefEvents

----------------------------------------------------------------------------
(* Properties of the event scan, checked under SpecRef *)

\* the last operation was a scan of the events of the reference lap
Scanned == obs.op = "refresh" \/ (obs.op = "load" /\ ~obs.failed)

\* the samples of the reference lap, counted from 0 as in the code
Samples == 0..(Len(reference[1].lap_pct) - 1)

\* how many events of a kind the last scan emitted at sample i
Emitted(kind, i) ==
    Cardinality({k \in 1..Len(obs.scan.events) :
                    obs.scan.events[k].kind = kind /\ obs.scan.event_at[k] = i})

\* brake rises from below brake_th to at/above it at sample i >= 1
BrakeRises(i) ==
    /\ reference[1].brake[i] < reference[1].brake_threshold
    /\ reference[1].brake_threshold <= reference[1].brake[i + 1]

\* sample i lies in a brake zone: brake has risen at a sample j <= i and has not
\* been below brake_th * 0.5 at any sample from j to i
InBrakeZone(i) ==
    \E j \in 1..i :
        /\ BrakeRises(j)
        /\ \A k \in j..i : 2 * reference[1].brake[k + 1] >= reference[1].brake_threshold

\* C22: a Brake event is emitted exactly at each sample where brake rises from
\* below brake_th to at/above it while the scan is not already in a brake zone;
\* a zone lasts until brake has dropped below brake_th * 0.5, after which a new
\* rising crossing emits a second event; for the brake values
\* [0, 0.05, 0.15, 0.3, 0.04] with brake_th = 0.1 there is exactly one Brake
\* event, at the index of 0.15.
C22_BrakeEvents ==
    Scanned =>
        /\ \A i \in Samples :
             Emitted("brake", i) =
                IF i >= 1 /\ BrakeRises(i) /\ ~(i >= 2 /\ InBrakeZone(i - 1)) THEN 1 ELSE 0
        /\ (obs.op = "load" /\ obs.ibt = ExampleRecording) =>
             /\ Emitted("brake", 2) = 1
             /\ \A i \in Samples \ {2} : Emitted("brake", i) = 0

\* C22 witness: the recording with the brake values [0, 0.05, 0.15, 0.3, 0.04] was
\* loaded and its only event is the Brake event of the third sample.
C22_Witness ==
    /\ obs.op = "load" /\ obs.ibt = ExampleRecording
    /\ reference[1].brake = <<0, 50, 150, 300, 40>>
    /\ reference[1].events = << RefEvent("brake", 300) >>
    /\ obs.scan.event_at = <<2>>

\* a recording whose brake is released below half the threshold and applied
\* again has two Brake events, one that is only eased to 0.06 has one
C22_WitnessSecondEvent ==
    /\ obs.op = "load" /\ ~obs.failed
    /\ reference[1].brake = <<40, 150, 40, 150>>
    /\ obs.scan.event_at = <<1, 3>>

\* C23 as stated: a Power-on event is emitted at every sample where throttle
\* crosses from below power_th to at/above it while in_brake or in_lift is true
\* when that sample is reached, and at no other sample.
C23_Original ==
    Scanned =>
        \A i \in Samples \ {0} :
            Emitted("power", i) =
                IF /\ obs.scan.reached[i][1] \/ obs.scan.reached[i][2]
                   /\ reference[1].throttle[i] < reference[1].power_threshold
                   /\ reference[1].power_threshold <= reference[1].throttle[i + 1]
                THEN 1 ELSE 0

\* how many times a value occurs in a list
Occurrences(list, v) == Cardinality({k \in 1..Len(list) : list[k] = v})

\* the lap fractions of the Brake events, in the order of the event list
BrakeEventFractions(events) ==
    LET idx == {k \in 1..Len(events) : events[k].kind = "brake"}
    IN  {events[k].lap_pct : k \in idx}

\* C24: after every event derivation the brake-point list is sorted ascending
\* and is exactly the multiset of lap-fractions of the Brake events in the event
\* list (same number of entries, same values).
C24_BrakePoints ==
    ~IsNone(reference) =>
        LET points == reference[1].brake_points
            events == reference[1].events
        IN  /\ \A k \in 1..(Len(points) - 1) : points[k] <= points[k + 1]
            /\ Len(points) = Cardinality({k \in 1..Len(events) : events[k].kind = "brake"})
            /\ \A v \in BrakeEventFractions(events) \cup {points[k] : k \in 1..Len(points)} :
                 Occurrences(points, v)
                   = Cardinality({k \in 1..Len(events) :
                                     events[k].kind = "brake" /\ events[k].lap_pct = v})

\* C24 witness: a run that goes from 0.3 back to 0.1 has Brake events at 0.3 and
\* then at 0.1, and the brake points 0.1, 0.3.
C24_Witness ==
    /\ Scanned
    /\ reference[1].events = << RefEvent("brake", 300), RefEvent("brake", 100) >>
    /\ reference[1].brake_points = <<100, 300>>

\* C25 as stated: for every selected reference run the event list is in
\* non-decreasing lap-fraction order.
C25_Original ==
    ~IsNone(reference) =>
        \A k \in 1..(Len(reference[1].events) - 1) :
            reference[1].events[k].lap_pct <= reference[1].events[k + 1].lap_pct

\* the raw channel series of a reference lap
RawSeries(ref) == <<ref.lap_pct, ref.throttle, ref.brake, ref.steering, ref.gear, ref.speed>>

\* C26: refresh_thresholds replaces the event list and the brake-point list by
\* the result of a fresh scan that depends only on the raw sample series and the
\* new thresholds (nothing of the previous lists survives; re-deriving twice with
\* the same thresholds yields the same lists) and leaves every raw channel series
\* unchanged.
C26_RefreshRescans ==
    /\ [](obs.op = "refresh" =>
            /\ reference[1].events = obs.scan.events
            /\ reference[1].brake_points = obs.scan.brake_points
            /\ <<reference[1].brake_threshold, reference[1].lift_threshold,
                 reference[1].power_threshold>> = obs.th)
    /\ [][obs'.op = "refresh" =>
            /\ RawSeries(reference'[1]) = RawSeries(reference[1])
            /\ reference'[1].track_length_m = reference[1].track_length_m
            /\ (obs.op = "refresh" /\ obs.th = obs'.th) =>
                 /\ reference'[1].events = reference[1].events
                 /\ reference'[1].brake_points = reference[1].brake_points]_vars

\* C26 witness: thresholds with a higher lift threshold were set on a reference
\* lap that had the one event Lift at 0.3, and it now has Lift at 0.3 and Power-on
\* at 0.4.
C26_Witness ==
    /\ obs.op = "refresh" /\ obs.th = HighLiftThresholds
    /\ obs.before = << RefEvent("lift", 300) >>
    /\ reference[1].events = << RefEvent("lift", 300), RefEvent("power", 400) >>

\* sample i >= 1 of a recording jumps back by more than 0.5
JumpsBack(lap_pct_all, i) == lap_pct_all[i + 1] < lap_pct_all[i] - 500

\* (s, e) is a run of the recording: a non-empty index range s..e-1 with no
\* backward jump of more than 0.5 inside, bounded on each side by such a jump or
\* by an end of the recording
IsRun(lap_pct_all, s, e) ==
    /\ 0 <= s /\ s < e /\ e <= Len(lap_pct_all)
    /\ \A i \in (s + 1)..(e - 1) : ~JumpsBack(lap_pct_all, i)
    /\ s = 0 \/ JumpsBack(lap_pct_all, s)
    /\ e = Len(lap_pct_all) \/ JumpsBack(lap_pct_all, e)

\* C27: on load, the selected reference run is a contiguous index range of the
\* recording that contains no backward lap-fraction jump greater than 0.5, is
\* bounded on each side by such a jump or by an end of the recording, and no
\* other such run of the recording is longer; the samples of the reference lap
\* are the samples of that range.
C27_LongestRun ==
    (obs.op = "load" /\ ~obs.failed) =>
        LET all == obs.ibt.LapDistPct
            s == obs.run[1]
            e == obs.run[2]
        IN  /\ IsRun(all, s, e)
            /\ \A s2 \in 0..Len(all), e2 \in 0..Len(all) :
                 IsRun(all, s2, e2) => e2 - s2 <= e - s
            /\ Len(reference[1].lap_pct) = e - s
            /\ reference[1].brake = run_channel(obs.ibt.Brake, s, e)

\* C27 witness: of the recording 0.9, 0.1, 0.3, 0.9 the run of the last three
\* samples was selected.
C27_Witness ==
    /\ obs.op = "load" /\ obs.ibt.LapDistPct = <<900, 100, 300, 900>>
    /\ obs.run = <<1, 4>>
    /\ reference[1].lap_pct = <<100, 300, 900>>

\* C29: loading a reference whose position channel is absent or empty fails with
\* an error before any reference state is built, and after the failed load the
\* application's reference is unset; a missing optional channel never causes the
\* load to fail: the channel is all zero, of the length of the run.
C29_LoadFailure ==
    obs.op = "load" =>
        /\ obs.ibt.LapDistPct = <<>> => (obs.failed /\ IsNone(reference))
        /\ obs.ibt.LapDistPct # <<>> =>
             /\ ~obs.failed /\ ~IsNone(reference)
             /\ obs.ibt.Throttle = <<>> =>
                  reference[1].throttle = Zeros(Len(reference[1].lap_pct))
             /\ obs.ibt.Brake = <<>> =>
                  reference[1].brake = Zeros(Len(reference[1].lap_pct))
             /\ obs.ibt.SteeringWheelAngle = <<>> =>
                  reference[1].steering = Zeros(Len(reference[1].lap_pct))
             /\ obs.ibt.Gear = <<>> => reference[1].gear = Zeros(Len(reference[1].lap_pct))
             /\ obs.ibt.Speed = <<>> => reference[1].speed = Zeros(Len(reference[1].lap_pct))
             /\ obs.ibt.LapDist = <<>> => IsNone(reference[1].track_length_m)

\* C29 witness: a file that has every channel but LapDistPct was loaded, the load
\* failed and the reference is unset.
C29_Witness ==
    /\ obs.op = "load" /\ obs.failed
    /\ obs.ibt = FullRecording(<<>>)
    /\ IsNone(reference)

\* a file with a position channel and no other channel gives a reference lap of
\* zero-filled channels
C29_WitnessZeroFilled ==
    /\ obs.op = "load" /\ ~obs.failed
    /\ obs.ibt.Throttle = <<>> /\ obs.ibt.Speed = <<>>
    /\ reference[1].throttle = <<0, 0, 0, 0, 0>>
    /\ reference[1].speed = <<0, 0, 0, 0, 0>>

----------------------------------------------------------------------------
(* Properties of the interpolated query, checked under SpecValueAt *)

\* C28 as stated: for p equal to the exact lap-fraction of any sample ref_at_pct
\* returns that sample's channel value, and for p below the first or above the
\* last lap-fraction it returns the first or last sample's value.
C28_Original ==
    obs.op = "value_at" =>
        LET lap_pct == reference[1].lap_pct
            speed == reference[1].speed
        IN  /\ \A i \in 1..Len(lap_pct) :
                 lap_pct[i] = obs.pct => obs.out[1] = speed[i] * obs.out[2]
            /\ obs.pct < lap_pct[1] => obs.out[1] = speed[1] * obs.out[2]
            /\ obs.pct > lap_pct[Len(lap_pct)] => obs.out[1] = speed[Len(speed)] * obs.out[2]

\* On a reference lap whose lap fractions strictly increase the query is exact at
\* every sample and clamps outside the samples (in exact arithmetic).
ExactOnIncreasingRuns ==
    (obs.op = "value_at"
       /\ \A i \in 1..(Len(reference[1].lap_pct) - 1) :
            reference[1].lap_pct[i] < reference[1].lap_pct[i + 1])
    => C28_Original

----------------------------------------------------------------------------
(* The range of the lap fractions, checked under SpecPos *)

\* C30 as stated: every lap-fraction value that the tick passes to the Position
\* Unwrapper lies in [0, 1].
C30_Original ==
    (obs.op = "position" /\ ~IsNone(last_live_lap_pct)) =>
        (0 <= last_live_lap_pct[1] /\ last_live_lap_pct[1] <= 1000)

\* every lap fraction stored in the loaded reference lap lies in [0, 1]
ReferenceFractionsInRange ==
    ~IsNone(reference) =>
        \A i \in 1..Len(reference[1].lap_pct) :
            0 <= reference[1].lap_pct[i] /\ reference[1].lap_pct[i] <= 1000

----------------------------------------------------------------------------
(* The distance to the next brake point, checked under SpecNextBrake *)

\* the forward distance from the position to a brake point, modulo the lap
ForwardDistance(b, pct, len) == PyMod(Mul(b, len) - Mul(pct, len), len)

\* C31 as stated: for a lap fraction p in [0, 1) and a known track length L the
\* query returns the minimum over all brake points b of (b*L - p*L) mod L, a
\* value in [0, L); it returns no value when there is no reference, no brake
\* point or no track length.
C31_Original ==
    obs.op = "next_brake" =>
        IF IsNone(reference) \/ reference[1].brake_points = <<>> \/ ~Truthy(obs.len)
        THEN obs.out = NoneV
        ELSE (0 <= obs.pct /\ obs.pct < 1000) =>
                /\ ~IsNone(obs.out)
                /\ 0 <= obs.out[1] /\ obs.out[1] < obs.len[1]
                /\ \E k \in 1..Len(reference[1].brake_points) :
                     obs.out[1] = ForwardDistance(reference[1].brake_points[k], obs.pct, obs.len[1])
                /\ \A k \in 1..Len(reference[1].brake_points) :
                     obs.out[1] <= ForwardDistance(reference[1].brake_points[k], obs.pct, obs.len[1])

\* With every brake point in [0, 1) the query is the minimum forward distance.
NextBrakeIsNearestBelowOne ==
    (obs.op = "next_brake" /\ ~IsNone(reference)
       /\ \A k \in 1..Len(reference[1].brake_points) : reference[1].brake_points[k] < 1000)
    => C31_Original

----------------------------------------------------------------------------
(* Properties of the snapshot hand-over, checked under SpecIngest and          *)
(* SpecIngestFair *)

\* C32: every snapshot the tick obtains from get_snapshot is exactly one
\* complete snapshot value previously published by the ingest thread (or the
\* initial disconnected snapshot): in no interleaving does the tick observe
\* fields belonging to two different published snapshots.
C32_NoTornSnapshot ==
    /\ tpc \in {"unlock", "read1", "read2"} => objects[tsnap] \in published.values
    /\ tpc = "read2" =>
         \E v \in published.values :
            v.connected = tseen.connected /\ v.timestamp = tseen.timestamp
    /\ obs.op = "snapshot" => obs.seen \in published.values

\* the tick has read a snapshot field by field while the ingest thread created
\* and published a newer one
C32_Witness ==
    /\ obs.op = "snapshot"
    /\ tpc = "idle"
    /\ obs.seen.timestamp = 1
    /\ snapshot # tsnap
    /\ Cardinality(published.values) >= 3

\* C33: after the close handler has run, the ingest thread eventually leaves its
\* loop, at its next poll of the stop flag: it publishes at most the snapshot of
\* the iteration that was under way.
C33_IngestStops ==
    /\ stop_event ~> (ipc = "done")
    /\ [](published.after_stop <= 1)
    /\ [][stop_event /\ ipc = "poll" => ipc' \in {"poll", "done"}]_vars

\* the worker was stopped in the middle of an iteration, finished it and left
C33_Witness ==
    /\ stop_event
    /\ ipc = "done"
    /\ published.after_stop = 1

----------------------------------------------------------------------------
(* Properties of the playback worker thread, checked under SpecWorkerFair *)

\* C34 as stated: after the close handler has run, the playback worker
\* eventually leaves its loop.
C34_Original == stop_event ~> (wpc = "done")

\* no _play_pattern call is under way and none will come
NoFurtherEnqueue == hist.next_id > MaxCues /\ epc = "idle"

\* the item with this tag waits in the queue
Pending(id) == \E k \in 1..Len(audio_queue) : audio_queue[k].id = id

\* the worker is in Idle: it waits in get and holds no item
Idle == wpc = "get" /\ IsNone(witem)

\* C40: under fair scheduling of the playback worker and with no further
\* enqueues, every item still in the cue queue is eventually dequeued, the
\* worker then gets back to Idle with the queue empty, and the worker never
\* stays in Playing forever.
C40_QueueDrains ==
    /\ \A id \in 1..MaxCues :
          (NoFurtherEnqueue /\ Pending(id)) ~> (id \in hist.dequeued /\ Idle)
    /\ NoFurtherEnqueue ~> (audio_queue = <<>> /\ Idle)
    /\ ~Idle ~> Idle

\* the last cue was enqueued behind another one, both were dequeued and the last
\* one was played, and the worker is back in Idle with the queue empty
C40_Witness ==
    /\ NoFurtherEnqueue
    /\ audio_queue = <<>>
    /\ Idle
    /\ {MaxCues - 1, MaxCues} \subseteq hist.dequeued
    /\ MaxCues \in hist.beeped

----------------------------------------------------------------------------
(* The tones of the scheduling tick, checked under SpecGear *)

\* C35 as stated: no step of the scheduling tick emits a tone or performs any
\* other blocking call.
C35_Original == obs.op = "gear" => (obs.beeps = 0 /\ obs.bells = 0)

\* The tick emits a tone exactly when the gear beep is enabled and the gear
\* differs from the gear of the tick before.
TickBeepsOnGearChange ==
    obs.op = "gear" =>
        (obs.beeps + obs.bells = 1) =
            (obs.gear_beep /\ ~IsNone(obs.gear) /\ ~IsNone(obs.before) /\ obs.gear # obs.before)

----------------------------------------------------------------------------
(* The cue engine across a change of mode, checked under SpecCue *)

\* a tick within the lap at the position of the tick before, on which the
\* scheduler goes from fraction mode to distance mode or back
ModeSwitchInPlace ==
    /\ obs'.op = "tick" /\ ~obs'.roll
    /\ last_lap_pct' = last_lap_pct
    /\ last_dist_to_event # EmptyDict
    /\ distance_mode(last_track_len_m') # distance_mode(last_track_len_m)

\* C36 as stated: when the track length becomes known or unknown in the middle
\* of a lap the switch by itself fires no cue: no crossing and no forced C is
\* derived from a cached value of the other unit.
C36_Original == [][ModeSwitchInPlace => (obs'.forced = {} /\ lap'.fired = lap.fired)]_vars

\* C37: if in a single tick the distance of an enabled event goes from a
\* recorded value greater than approach_B to a larger value, the forced path is
\* not taken and no C cue is enqueued for that event on that tick.
C37_JumpMissesForcedC ==
    [][obs'.op = "tick" =>
          \A i \in obs'.jumped :
             /\ ~(i \in obs'.forced)
             /\ lap'.fired[i]["c"] = lap.fired[i]["c"]]_vars

\* the vehicle has jumped past an event from beyond approach_B: the lap goes on
\* and the C cue of the event has not been enqueued in it
C37_Witness ==
    /\ obs.op = "tick"
    /\ \E i \in obs.jumped : lap.fired[i]["c"] = 0 /\ ~StageFlag(i, "c")

----------------------------------------------------------------------------
(* The cue queue under B and C cues, checked under SpecAudio *)

\* the items of priority B or C that wait in the queue
PendingNear == {k \in 1..Len(audio_queue) : audio_queue[k].priority <= PRIORITY_B}

----------------------------------------------------------------------------
(* The cue engine while the event list is derived again, checked under         *)
(* SpecRederive *)

\* the event at this index of the list is the same before and after the step
SameEventAt(i) ==
    /\ i < Len(reference[1].events) /\ i < Len(reference'[1].events)
    /\ reference'[1].events[i + 1].kind = reference[1].events[i + 1].kind
    /\ reference'[1].events[i + 1].lap_pct = reference[1].events[i + 1].lap_pct

\* C39 as stated: Stage State and Last-Distance Cache entries belong to the same
\* reference event for the whole lap: a stage flag or cached distance recorded
\* for one event is not applied to a different event by a later tick of the lap.
C39_Original ==
    [][(obs'.op = "tick" /\ ~obs'.roll /\ ~IsNone(reference))
          => \A i \in (DOMAIN stage_state) \cup (DOMAIN last_dist_to_event) : SameEventAt(i)]_vars

====
